---- MODULE Spec2Model ----
(***************************************************************************)
(* Model of the PayU plugin's webhook authenticity check and subscription  *)
(* reconciliation core (src/src/routes.ts, src/src/hooks.ts, utils).       *)
(*                                                                         *)
(* Text is a sequence of one-character strings, so that toLowerCase and    *)
(* the pipe join act on characters.  A nullable value is <<>> (null or     *)
(* undefined) or <<v>>.  Dates are the integer clock `now`.                *)
(***************************************************************************)
EXTENDS Integers, Sequences, FiniteSets, TLC

VARIABLES
  subs,     \* the persistence collaborator's "subscription" model: a sequence of rows
  now,      \* the clock read by `new Date()`; one tick per request
  options,  \* PayUOptions: subscription.enabled, organization.enabled
  before,   \* the rows as they were when the last request arrived
  req,      \* the request being answered (route, body, injected collaborator fault)
  resp,     \* the HTTP response of that request
  log,      \* collaborator calls made while answering it, in order
  inflight  \* webhook deliveries being handled concurrently: each one's position
            \* between its awaits, its body and the row its last findOne returned

vars == <<subs, now, options, before, req, resp, log, inflight>>

-----------------------------------------------------------------------------
(* Bounds *)

MaxNow == 2        \* requests per behaviour (the clock stops the model there)
MaxSubs == 3       \* rows the store may hold
MaxChanged == 2    \* fields in which a hash input departs from the base input
MaxUserSlot == 6   \* udf slots a caller's own metadata may fill: udf1..udf6
MaxDeliveries == 2 \* webhook deliveries handled at the same time

-----------------------------------------------------------------------------
(* Nullable values and text *)

Null == <<>>
Some(v) == <<v>>
Val(n) == n[1]

EmptyText == <<>>

\* JS `x || ""` on an optional string
OrEmpty(n) == IF n = Null THEN EmptyText ELSE Val(n)

\* JS truthiness of an optional string: undefined, null and "" are falsy
Truthy(n) == n # Null /\ Val(n) # EmptyText

UpperLetters == <<"A","B","C","D","E","F","G","H","I","J","K","L","M",
                  "N","O","P","Q","R","S","T","U","V","W","X","Y","Z">>
LowerLetters == <<"a","b","c","d","e","f","g","h","i","j","k","l","m",
                  "n","o","p","q","r","s","t","u","v","w","x","y","z">>

LowerOf ==
  [c \in {UpperLetters[i] : i \in 1..26} |->
     LowerLetters[CHOOSE i \in 1..26 : UpperLetters[i] = c]]

LowerChar(c) == IF c \in DOMAIN LowerOf THEN LowerOf[c] ELSE c

\* String.prototype.toLowerCase
toLowerCase(s) == [i \in DOMAIN s |-> LowerChar(s[i])]

\* Array.prototype.join
RECURSIVE join(_, _)
join(fields, sep) ==
  IF fields = <<>> THEN EmptyText
  ELSE IF Len(fields) = 1 THEN fields[1]
  ELSE fields[1] \o sep \o join(Tail(fields), sep)

Min(S) == CHOOSE m \in S : \A n \in S : m <= n

\* The element of a one-element set: The({e(x) : x \in {v}}) is e(v), with v
\* computed once (a `const x = v` of the source)
The(S) == CHOOSE x \in S : TRUE

-----------------------------------------------------------------------------
(* String literals of the source *)

s_success == <<"s","u","c","c","e","s","s">>
s_captured == <<"c","a","p","t","u","r","e","d">>
s_failure == <<"f","a","i","l","u","r","e">>
s_failed == <<"f","a","i","l","e","d">>
s_pending == <<"p","e","n","d","i","n","g">>
s_cancelled == <<"c","a","n","c","e","l","l","e","d">>
s_halted == <<"h","a","l","t","e","d">>
s_completed == <<"c","o","m","p","l","e","t","e","d">>
s_paused == <<"p","a","u","s","e","d">>
s_resumed == <<"r","e","s","u","m","e","d">>
s_active == <<"a","c","t","i","v","e">>
s_mandate_revoked == <<"m","a","n","d","a","t","e","_","r","e","v","o","k","e","d">>
s_si_cancelled == <<"s","i","_","c","a","n","c","e","l","l","e","d">>
s_mandate_modified == <<"m","a","n","d","a","t","e","_","m","o","d","i","f","i","e","d">>
s_si_modified == <<"s","i","_","m","o","d","i","f","i","e","d">>

-----------------------------------------------------------------------------
(* Hash engine (utils) *)

\* createHmac("sha512", key).update(msg).digest("hex"): a collision-free digest,
\* kept symbolic as the pair it was computed from
createHmac(key, msg) == [hmacSha512Key |-> key, of |-> msg]

Pipe == <<"|">>

generatePayUHashSaltFirst(params, salt) ==
  createHmac(EmptyText,
    join(<< salt, params.key, params.txnid, params.amount, params.productinfo,
            params.firstname, params.email,
            OrEmpty(params.udf[1]), OrEmpty(params.udf[2]), OrEmpty(params.udf[3]),
            OrEmpty(params.udf[4]), OrEmpty(params.udf[5]), OrEmpty(params.udf[6]),
            OrEmpty(params.udf[7]), OrEmpty(params.udf[8]), OrEmpty(params.udf[9]),
            OrEmpty(params.udf[10]) >>, Pipe))

generatePayUHash(params, salt) ==
  LET hashString == join(
        << params.key, params.txnid, params.amount, params.productinfo,
           params.firstname, params.email,
           OrEmpty(params.udf[1]), OrEmpty(params.udf[2]), OrEmpty(params.udf[3]),
           OrEmpty(params.udf[4]), OrEmpty(params.udf[5]), OrEmpty(params.udf[6]),
           OrEmpty(params.udf[7]), OrEmpty(params.udf[8]), OrEmpty(params.udf[9]),
           OrEmpty(params.udf[10]), salt >>, Pipe)
  IN createHmac(EmptyText, hashString)

reverseHashString(params, salt) ==
  join(<< salt, params.status,
          EmptyText, EmptyText, EmptyText, EmptyText, EmptyText,
          EmptyText, EmptyText, EmptyText, EmptyText,
          OrEmpty(params.udf[10]), OrEmpty(params.udf[9]), OrEmpty(params.udf[8]),
          OrEmpty(params.udf[7]), OrEmpty(params.udf[6]), OrEmpty(params.udf[5]),
          OrEmpty(params.udf[4]), OrEmpty(params.udf[3]), OrEmpty(params.udf[2]),
          OrEmpty(params.udf[1]),
          params.email, params.firstname, params.productinfo, params.amount,
          params.txnid, params.key >>, Pipe)

verifyPayUHashAlwaysTrue(params, salt, receivedHash) == TRUE

verifyPayUHash(params, salt, receivedHash) ==
  LET computedHash == createHmac(EmptyText, reverseHashString(params, salt))
  IN computedHash = receivedHash

-----------------------------------------------------------------------------
(* Configuration: merchant credentials and the plan catalogue *)

merchantKey == <<"k">>
merchantSalt == <<"s">>

p_Monthly == <<"M","o","n","t","h","l","y">>
p_Unlimited == <<"U","n","l","i","m","i","t","e","d">>
p_Trial == <<"T","r","i","a","l">>

\* options.subscription.plans: PayUPlan.totalCount is a number, 0 = unlimited
Plans ==
  << [name |-> p_Monthly, amount |-> <<"4","9","9">>, totalCount |-> 12],
     [name |-> p_Trial, amount |-> <<"9">>, totalCount |-> 2],
     [name |-> p_Unlimited, amount |-> <<"9","9">>, totalCount |-> 0] >>

-----------------------------------------------------------------------------
(* The persistence collaborator *)

SubId(i) == <<"s", <<"0","1","2","3","4","5","6","7","8","9">>[i + 1]>>

\* The handler-local run: the rows, the calls made so far, the fault to inject
\* (the k-th call of one collaborator throws), whether an exception is in flight,
\* and the result of the last findOne.
StartRun(rows, fault) ==
  [ subs |-> rows, log |-> <<>>, fault |-> fault,
    calls |-> [k \in {"findOne", "update", "plans", "callback"} |-> 0],
    thrown |-> FALSE, found |-> Null ]

\* One collaborator call: what was called, on what, with which row / plan, and
\* whether the call threw
Entry(op, a, b, threw) == [op |-> op, a |-> a, b |-> b, threw |-> threw]

Called(st, kind, entry) ==
  [st EXCEPT !.calls[kind] = @ + 1, !.log = Append(@, entry)]

Throws(st, kind) == st.fault = <<kind, st.calls[kind] + 1>>

\* adapter.findOne({ model: "subscription", where: [{ field, value }] })
FirstRow(rows, field, value) ==
  LET hits == {i \in DOMAIN rows : rows[i][field] = value}
  IN IF hits = {} THEN Null ELSE Some(rows[Min(hits)])

RowIdOf(answer) == IF answer = Null THEN Null ELSE Some(Val(answer).id)

adapterFindOne(st, field, value) ==
  IF Throws(st, "findOne")
  THEN [Called(st, "findOne", Entry("findOne", field, Null, TRUE)) EXCEPT !.thrown = TRUE]
  ELSE The({ [Called(st, "findOne", Entry("findOne", field, RowIdOf(row), FALSE))
                EXCEPT !.found = row] :
             row \in {FirstRow(st.subs, field, value)} })

Merge(row, update) ==
  [f \in DOMAIN row |-> IF f \in DOMAIN update THEN update[f] ELSE row[f]]

\* adapter.update({ model: "subscription", where: [{ field: "id", value: id }], update });
\* like every call below, it is not reached once an earlier call of the try block threw
adapterUpdate(st, id, update) ==
  IF st.thrown THEN st
  ELSE IF Throws(st, "update")
  THEN [Called(st, "update", Entry("update", "id", Some(id), TRUE)) EXCEPT !.thrown = TRUE]
  ELSE [Called(st, "update", Entry("update", "id", Some(id), FALSE)) EXCEPT
          !.subs = [i \in DOMAIN st.subs |->
                      IF st.subs[i].id = id THEN Merge(st.subs[i], update)
                      ELSE st.subs[i]]]

-----------------------------------------------------------------------------
(* Metadata slots (metadata.ts) *)

\* paramsToUdf: keeps the truthy udf1..udf10 of a webhook body
paramsToUdf(params) ==
  [i \in 1..10 |-> IF Truthy(params.udf[i]) THEN params.udf[i] ELSE Null]

\* subscriptionUdf.set(internalFields): udf2, udf4 and udf5
subscriptionUdfSet(userId, subscriptionId, referenceId) ==
  [i \in 1..10 |->
     CASE i = 2 -> Some(userId)
       [] i = 4 -> Some(subscriptionId)
       [] i = 5 -> Some(referenceId)
       [] OTHER -> Null]

\* subscriptionUdf.get(udf).subscriptionId
subscriptionUdfGetSubscriptionId(udf) == udf[4]

-----------------------------------------------------------------------------
(* Subscription lookup (hooks.ts) *)

findSubscriptionByTxnId(st, txnid) ==
  adapterFindOne(st, "payuTransactionId", Some(txnid))

findSubscriptionByUdf(st, event) ==
  LET subscriptionId == subscriptionUdfGetSubscriptionId(paramsToUdf(event))
  IN IF Truthy(subscriptionId)
     THEN adapterFindOne(st, "id", Val(subscriptionId))
     ELSE [st EXCEPT !.found = Null]

findSubscriptionUdfFirst(st, event) ==
  The({ IF byUdf.thrown \/ byUdf.found # Null THEN byUdf
        ELSE findSubscriptionByTxnId(byUdf, event.txnid) :
        byUdf \in {findSubscriptionByUdf(st, event)} })

findSubscription(st, event) ==
  The({ IF byTxn.thrown \/ byTxn.found # Null THEN byTxn
        ELSE findSubscriptionByUdf(byTxn, event) :
        byTxn \in {findSubscriptionByTxnId(st, event.txnid)} })

-----------------------------------------------------------------------------
(* Webhook handlers (hooks.ts) *)

NumOrZero(n) == IF n = Null THEN 0 ELSE Val(n)

Max(a, b) == IF a >= b THEN a ELSE b

\* options.subscription.plans (array or function), then .find(p => p.name === sub.plan)
resolvePlan(st, sub) ==
  LET hits == {i \in DOMAIN Plans : Plans[i].name = sub.plan}
      plan == IF hits = {} THEN Null ELSE Some(Plans[Min(hits)].name)
  IN IF st.thrown THEN st
     ELSE IF Throws(st, "plans")
     THEN [Called(st, "plans", Entry("plans", "find", Null, TRUE)) EXCEPT !.thrown = TRUE]
     ELSE Called(st, "plans", Entry("plans", "find", plan, FALSE))

\* options.subscription.<h>?.({ subscription, plan, event })
userCallback(st, h, subscriptionId) ==
  IF st.thrown THEN st
  ELSE IF Throws(st, "callback")
  THEN [Called(st, "callback", Entry("callback", h, subscriptionId, TRUE)) EXCEPT !.thrown = TRUE]
  ELSE Called(st, "callback", Entry("callback", h, subscriptionId, FALSE))

loggerWarn(st, h) == [st EXCEPT !.log = Append(@, Entry("warn", h, Null, FALSE))]

loggerError(st, h) == [st EXCEPT !.log = Append(@, Entry("error", h, Null, FALSE))]

\* try { ... } catch (err) { ctx.context.logger.error(...) }
rethrow(h, st) == st

tryCatch(h, st) ==
  IF st.thrown THEN loggerError([st EXCEPT !.thrown = FALSE], h) ELSE st

RowsOf(st) == {st.subs[i] : i \in DOMAIN st.subs}

\* The try block the handlers share: find the subscription; when found, one update
\* (update[sub] is the handler's update for the row found), the plan lookup and the
\* user callback; when not, a warning in some handlers.
applyToSubscription(h, st, event, update, warnsWhenMissing) ==
  The({ IF s1.thrown THEN s1
        ELSE IF s1.found # Null
        THEN LET sub == Val(s1.found)
             IN userCallback(
                  resolvePlan(adapterUpdate(s1, sub.id, update[sub]), sub),
                  h, Some(sub.id))
        ELSE IF warnsWhenMissing THEN loggerWarn(s1, h) ELSE s1 :
        s1 \in {findSubscription(st, event)} })

remainingAfterNoNullCheck(sub) ==
  Some(Max(NumOrZero(sub.totalCount) - (NumOrZero(sub.paidCount) + 1), 0))

remainingAfter(sub) ==
  IF sub.totalCount # Null
  THEN Some(Max(NumOrZero(sub.totalCount) - (NumOrZero(sub.paidCount) + 1), 0))
  ELSE Null

onPaymentSuccessOncePerPayment(opts, st, event, t) ==
  LET update ==
        [sub \in RowsOf(st) |->
            IF sub.payuMihpayid = Some(event.mihpayid)
            THEN [updatedAt |-> Some(t)]
            ELSE [ status |-> "active",
                   payuMihpayid |-> Some(event.mihpayid),
                   paidCount |-> Some(NumOrZero(sub.paidCount) + 1),
                   remainingCount |-> remainingAfter(sub),
                   updatedAt |-> Some(t) ]]
  IN IF ~opts.subscriptionEnabled THEN st
     ELSE IF event.txnid = EmptyText THEN st
     ELSE tryCatch("onPaymentSuccess",
                   applyToSubscription("onPaymentSuccess", st, event, update, TRUE))

onPaymentSuccess(opts, st, event, t) ==
  LET update ==
        [sub \in RowsOf(st) |->
            [ status |-> "active",
              payuMihpayid |-> Some(event.mihpayid),
              paidCount |-> Some(NumOrZero(sub.paidCount) + 1),
              remainingCount |-> remainingAfter(sub),
              updatedAt |-> Some(t) ]]
  IN IF ~opts.subscriptionEnabled THEN st
     ELSE IF event.txnid = EmptyText THEN st
     ELSE tryCatch("onPaymentSuccess",
                   applyToSubscription("onPaymentSuccess", st, event, update, TRUE))

onPaymentFailureOnlyWhenFound(opts, st, event, t) ==
  LET update == [sub \in RowsOf(st) |-> [status |-> "pending", updatedAt |-> Some(t)]]
  IN IF ~opts.subscriptionEnabled THEN st
     ELSE tryCatch("onPaymentFailure",
                   applyToSubscription("onPaymentFailure", st, event, update, FALSE))

onPaymentFailure(opts, st, event, t) ==
  LET update == [status |-> "pending", updatedAt |-> Some(t)]
  IN IF ~opts.subscriptionEnabled THEN st
     ELSE tryCatch("onPaymentFailure",
            The({ userCallback(
                    IF s1.found = Null THEN s1
                    ELSE adapterUpdate(s1, Val(s1.found).id, update),
                    "onPaymentFailure", Null) :
                  s1 \in {findSubscription(st, event)} }))

onSubscriptionActivatedCounting(opts, st, event, t) ==
  LET update ==
        [sub \in RowsOf(st) |->
            [ status |-> "active",
              payuMihpayid |-> Some(event.mihpayid),
              paidCount |-> Some(NumOrZero(sub.paidCount) + 1),
              currentStart |-> Some(t),
              updatedAt |-> Some(t) ]]
  IN IF ~opts.subscriptionEnabled THEN st
     ELSE IF event.txnid = EmptyText THEN st
     ELSE tryCatch("onSubscriptionActivated",
                   applyToSubscription("onSubscriptionActivated", st, event, update, TRUE))

onSubscriptionActivated(opts, st, event, t) ==
  LET update ==
        [sub \in RowsOf(st) |->
            [ status |-> "active",
              payuMihpayid |-> Some(event.mihpayid),
              currentStart |-> Some(t),
              updatedAt |-> Some(t) ]]
  IN IF ~opts.subscriptionEnabled THEN st
     ELSE IF event.txnid = EmptyText THEN st
     ELSE tryCatch("onSubscriptionActivated",
                   applyToSubscription("onSubscriptionActivated", st, event, update, TRUE))

onSubscriptionPending(opts, st, event, t) ==
  LET update == [sub \in RowsOf(st) |-> [status |-> "pending", updatedAt |-> Some(t)]]
  IN IF ~opts.subscriptionEnabled THEN st
     ELSE tryCatch("onSubscriptionPending",
                   applyToSubscription("onSubscriptionPending", st, event, update, FALSE))

onSubscriptionHalted(opts, st, event, t) ==
  LET update == [sub \in RowsOf(st) |-> [status |-> "halted", updatedAt |-> Some(t)]]
  IN IF ~opts.subscriptionEnabled THEN st
     ELSE tryCatch("onSubscriptionHalted",
                   applyToSubscription("onSubscriptionHalted", st, event, update, FALSE))

onSubscriptionCompleted(opts, st, event, t) ==
  LET update ==
        [sub \in RowsOf(st) |->
            [ status |-> "completed", endedAt |-> Some(t),
              remainingCount |-> Some(0), updatedAt |-> Some(t) ]]
  IN IF ~opts.subscriptionEnabled THEN st
     ELSE tryCatch("onSubscriptionCompleted",
                   applyToSubscription("onSubscriptionCompleted", st, event, update, FALSE))

onSubscriptionCancelledUnguarded(opts, st, event, t) ==
  LET update ==
        [sub \in RowsOf(st) |->
            [ status |-> "cancelled", cancelledAt |-> Some(t),
              endedAt |-> Some(t), updatedAt |-> Some(t) ]]
  IN tryCatch("onSubscriptionCancelled",
              applyToSubscription("onSubscriptionCancelled", st, event, update, TRUE))

onSubscriptionCancelled(opts, st, event, t) ==
  LET update ==
        [sub \in RowsOf(st) |->
            [ status |-> "cancelled", cancelledAt |-> Some(t),
              endedAt |-> Some(t), updatedAt |-> Some(t) ]]
  IN IF ~opts.subscriptionEnabled THEN st
     ELSE tryCatch("onSubscriptionCancelled",
                   applyToSubscription("onSubscriptionCancelled", st, event, update, TRUE))

onSubscriptionPaused(opts, st, event, t) ==
  LET update ==
        [sub \in RowsOf(st) |->
            [status |-> "paused", pausedAt |-> Some(t), updatedAt |-> Some(t)]]
  IN IF ~opts.subscriptionEnabled THEN st
     ELSE tryCatch("onSubscriptionPaused",
                   applyToSubscription("onSubscriptionPaused", st, event, update, FALSE))

onSubscriptionResumed(opts, st, event, t) ==
  LET update ==
        [sub \in RowsOf(st) |->
            [status |-> "active", pausedAt |-> Null, updatedAt |-> Some(t)]]
  IN IF ~opts.subscriptionEnabled THEN st
     ELSE tryCatch("onSubscriptionResumed",
                   applyToSubscription("onSubscriptionResumed", st, event, update, FALSE))

onMandateRevokedWithoutEndedAt(opts, st, event, t) ==
  LET update ==
        [sub \in RowsOf(st) |->
            [ status |-> "cancelled", cancelledAt |-> Some(t),
              updatedAt |-> Some(t) ]]
  IN IF ~opts.subscriptionEnabled THEN st
     ELSE tryCatch("onMandateRevoked",
                   applyToSubscription("onMandateRevoked", st, event, update, FALSE))

onMandateRevoked(opts, st, event, t) ==
  LET update ==
        [sub \in RowsOf(st) |->
            [ status |-> "cancelled", cancelledAt |-> Some(t),
              endedAt |-> Some(t), updatedAt |-> Some(t) ]]
  IN IF ~opts.subscriptionEnabled THEN st
     ELSE tryCatch("onMandateRevoked",
                   applyToSubscription("onMandateRevoked", st, event, update, FALSE))

onMandateModifiedCounting(opts, st, event, t) ==
  LET update ==
        [sub \in RowsOf(st) |->
            [ paidCount |-> Some(NumOrZero(sub.paidCount) + 1),
              updatedAt |-> Some(t) ]]
  IN IF ~opts.subscriptionEnabled THEN st
     ELSE tryCatch("onMandateModified",
                   applyToSubscription("onMandateModified", st, event, update, FALSE))

onMandateModified(opts, st, event, t) ==
  LET update == [sub \in RowsOf(st) |-> [updatedAt |-> Some(t)]]
  IN IF ~opts.subscriptionEnabled THEN st
     ELSE tryCatch("onMandateModified",
                   applyToSubscription("onMandateModified", st, event, update, FALSE))

-----------------------------------------------------------------------------
(* The webhook route (routes.ts) *)

Response(status, code) == [status |-> status, code |-> code, txnid |-> Null, hash |-> Null]

Ok == Response("OK", "")

Outcome(rows, entries, response) == [subs |-> rows, log |-> entries, resp |-> response]

\* body.status?.toLowerCase()
LowerOpt(n) == IF n = Null THEN Null ELSE Some(toLowerCase(Val(n)))

StatusBranches ==
  { Some(s_success), Some(s_captured), Some(s_failure), Some(s_failed),
    Some(s_pending), Some(s_cancelled), Some(s_halted), Some(s_completed),
    Some(s_paused), Some(s_resumed), Some(s_active) }

statusCascadeActivateIfPaid(opts, st, event, status, t) ==
  IF status \in {Some(s_success), Some(s_captured)}
  THEN The({ IF paid.thrown \/ (\E k \in DOMAIN paid.log : paid.log[k].op = "error")
             THEN paid ELSE onSubscriptionActivated(opts, paid, event, t) :
             paid \in {onPaymentSuccess(opts, st, event, t)} })
  ELSE IF status \in {Some(s_failure), Some(s_failed)}
  THEN onPaymentFailure(opts, st, event, t)
  ELSE IF status = Some(s_pending) THEN onSubscriptionPending(opts, st, event, t)
  ELSE IF status = Some(s_cancelled) THEN onSubscriptionCancelled(opts, st, event, t)
  ELSE IF status = Some(s_halted) THEN onSubscriptionHalted(opts, st, event, t)
  ELSE IF status = Some(s_completed) THEN onSubscriptionCompleted(opts, st, event, t)
  ELSE IF status = Some(s_paused) THEN onSubscriptionPaused(opts, st, event, t)
  ELSE IF status \in {Some(s_resumed), Some(s_active)}
  THEN onSubscriptionResumed(opts, st, event, t)
  ELSE st

\* The status branches of the if / else-if cascade, in the order of the source
statusCascade(opts, st, event, status, t) ==
  IF status \in {Some(s_success), Some(s_captured)}
  THEN The({ IF paid.thrown THEN paid ELSE onSubscriptionActivated(opts, paid, event, t) :
             paid \in {onPaymentSuccess(opts, st, event, t)} })
  ELSE IF status \in {Some(s_failure), Some(s_failed)}
  THEN onPaymentFailure(opts, st, event, t)
  ELSE IF status = Some(s_pending) THEN onSubscriptionPending(opts, st, event, t)
  ELSE IF status = Some(s_cancelled) THEN onSubscriptionCancelled(opts, st, event, t)
  ELSE IF status = Some(s_halted) THEN onSubscriptionHalted(opts, st, event, t)
  ELSE IF status = Some(s_completed) THEN onSubscriptionCompleted(opts, st, event, t)
  ELSE IF status = Some(s_paused) THEN onSubscriptionPaused(opts, st, event, t)
  ELSE IF status \in {Some(s_resumed), Some(s_active)}
  THEN onSubscriptionResumed(opts, st, event, t)
  ELSE st

dispatchStatusFirst(opts, st, event, status, notifType, t) ==
  IF status \in StatusBranches THEN statusCascade(opts, st, event, status, t)
  ELSE IF notifType \in {Some(s_mandate_revoked), Some(s_si_cancelled)}
  THEN onMandateRevoked(opts, st, event, t)
  ELSE IF notifType \in {Some(s_mandate_modified), Some(s_si_modified)}
  THEN onMandateModified(opts, st, event, t)
  ELSE st

dispatchElseResumed(opts, st, event, status, notifType, t) ==
  IF notifType \in {Some(s_mandate_revoked), Some(s_si_cancelled)}
  THEN onMandateRevoked(opts, st, event, t)
  ELSE IF notifType \in {Some(s_mandate_modified), Some(s_si_modified)}
  THEN onMandateModified(opts, st, event, t)
  ELSE IF status \in StatusBranches THEN statusCascade(opts, st, event, status, t)
  ELSE onSubscriptionResumed(opts, st, event, t)

dispatchNoticeThenStatus(opts, st, event, status, notifType, t) ==
  IF notifType \in {Some(s_mandate_revoked), Some(s_si_cancelled)}
  THEN statusCascade(opts, onMandateRevoked(opts, st, event, t), event, status, t)
  ELSE IF notifType \in {Some(s_mandate_modified), Some(s_si_modified)}
  THEN statusCascade(opts, onMandateModified(opts, st, event, t), event, status, t)
  ELSE statusCascade(opts, st, event, status, t)

\* Route on notification type first, then on status
dispatch(opts, st, event, status, notifType, t) ==
  IF notifType \in {Some(s_mandate_revoked), Some(s_si_cancelled)}
  THEN onMandateRevoked(opts, st, event, t)
  ELSE IF notifType \in {Some(s_mandate_modified), Some(s_si_modified)}
  THEN onMandateModified(opts, st, event, t)
  ELSE statusCascade(opts, st, event, status, t)

\* The parameters the route hands to verifyPayUHash
verifyParams(body) ==
  [ key |-> IF Truthy(body.key) THEN Val(body.key) ELSE merchantKey,
    txnid |-> OrEmpty(body.txnid),
    amount |-> OrEmpty(body.amount),
    productinfo |-> OrEmpty(body.productinfo),
    firstname |-> OrEmpty(body.firstname),
    email |-> OrEmpty(body.email),
    status |-> OrEmpty(body.status),
    udf |-> body.udf ]

webhookCaseSensitive(opts, rows, body, fault, t) ==
  IF body.hash = Null
  THEN Outcome(rows, <<>>, Response("BAD_REQUEST", "WEBHOOK_HASH_NOT_FOUND"))
  ELSE IF ~verifyPayUHash(verifyParams(body), merchantSalt, Val(body.hash))
  THEN Outcome(rows, <<>>, Response("UNAUTHORIZED", "FAILED_TO_VERIFY_WEBHOOK"))
  ELSE
    LET event == [ mihpayid |-> OrEmpty(body.mihpayid),
                   status |-> OrEmpty(body.status),
                   txnid |-> OrEmpty(body.txnid),
                   udf |-> body.udf,
                   notificationType |-> body.notificationType ]
        status == body.status
        notifType == body.notificationType
    IN The({ Outcome(st.subs, st.log,
                     IF st.thrown THEN Response("INTERNAL_SERVER_ERROR", "uncaught") ELSE Ok) :
             st \in {dispatch(opts, StartRun(rows, fault), event, status, notifType, t)} })

webhook(opts, rows, body, fault, t) ==
  IF body.hash = Null
  THEN Outcome(rows, <<>>, Response("BAD_REQUEST", "WEBHOOK_HASH_NOT_FOUND"))
  ELSE IF ~verifyPayUHash(verifyParams(body), merchantSalt, Val(body.hash))
  THEN Outcome(rows, <<>>, Response("UNAUTHORIZED", "FAILED_TO_VERIFY_WEBHOOK"))
  ELSE
    LET event == [ mihpayid |-> OrEmpty(body.mihpayid),
                   status |-> OrEmpty(body.status),
                   txnid |-> OrEmpty(body.txnid),
                   udf |-> body.udf,
                   notificationType |-> body.notificationType ]
        status == LowerOpt(body.status)
        notifType == LowerOpt(body.notificationType)
    IN The({ Outcome(st.subs, st.log,
                     IF st.thrown THEN Response("INTERNAL_SERVER_ERROR", "uncaught") ELSE Ok) :
             st \in {dispatch(opts, StartRun(rows, fault), event, status, notifType, t)} })

-----------------------------------------------------------------------------
(* Session and reference middleware (middleware.ts) *)

u_1 == <<"u","1">>
o_1 == <<"o","1">>

\* referenceMiddleware without its `if (!allowed)` branch
referenceMiddlewareIgnoresAnswer(opts, session, referenceIdParam) ==
  LET userId == Val(session)
      referenceId == IF referenceIdParam # Null THEN Val(referenceIdParam) ELSE userId
      asked == <<Entry("authorizeReference", "list-subscriptions", Some(referenceId), FALSE)>>
  IN IF session = Null
     THEN [error |-> Some(Response("UNAUTHORIZED", "UNAUTHORIZED")),
           referenceId |-> EmptyText, log |-> <<>>]
     ELSE IF referenceId = userId
     THEN [error |-> Null, referenceId |-> referenceId, log |-> <<>>]
     ELSE IF opts.organization # "disabled"
     THEN IF FALSE
          THEN [error |-> Some(Response("FORBIDDEN", "REFERENCE_ID_NOT_ALLOWED")),
                referenceId |-> referenceId, log |-> asked]
          ELSE [error |-> Null, referenceId |-> referenceId,
                log |-> IF opts.organization = "allows" THEN asked ELSE <<>>]
     ELSE [error |-> Some(Response("FORBIDDEN", "REFERENCE_ID_NOT_ALLOWED")),
           referenceId |-> referenceId, log |-> <<>>]

\* referenceMiddleware(options)(ctx): the session user, then the reference the
\* request acts for.  options.organization is "disabled", "enabled" (no
\* authorizeReference), "allows" or "denies" (authorizeReference's answer).
referenceMiddleware(opts, session, referenceIdParam) ==
  LET userId == Val(session)
      referenceId == IF referenceIdParam # Null THEN Val(referenceIdParam) ELSE userId
      asked == <<Entry("authorizeReference", "list-subscriptions", Some(referenceId), FALSE)>>
  IN IF session = Null
     THEN [error |-> Some(Response("UNAUTHORIZED", "UNAUTHORIZED")),
           referenceId |-> EmptyText, log |-> <<>>]
     ELSE IF referenceId = userId
     THEN [error |-> Null, referenceId |-> referenceId, log |-> <<>>]
     ELSE IF opts.organization # "disabled"
     THEN IF opts.organization = "denies"
          THEN [error |-> Some(Response("FORBIDDEN", "REFERENCE_ID_NOT_ALLOWED")),
                referenceId |-> referenceId, log |-> asked]
          ELSE [error |-> Null, referenceId |-> referenceId,
                log |-> IF opts.organization = "allows" THEN asked ELSE <<>>]
     ELSE [error |-> Some(Response("FORBIDDEN", "REFERENCE_ID_NOT_ALLOWED")),
           referenceId |-> referenceId, log |-> <<>>]

-----------------------------------------------------------------------------
(* Subscription routes (routes.ts) *)

\* getPlanByName: case-insensitive match on the plan's name
getPlanByName(name) ==
  LET hits == {i \in DOMAIN Plans : toLowerCase(Plans[i].name) = toLowerCase(name)}
  IN IF hits = {} THEN Null ELSE Some(Plans[Min(hits)])

\* The rows findOne may answer with for
\* where referenceId = r and status in statuses
Matching(rows, referenceId, statuses) ==
  {i \in DOMAIN rows : rows[i].referenceId = referenceId /\ rows[i].status \in statuses}

Answers(rows, hits) == IF hits = {} THEN {Null} ELSE {Some(rows[i]) : i \in hits}

Digit(n) == <<"0","1","2","3","4","5","6","7","8","9">>[n + 1]

\* `txn_${Date.now()}_${subscription.id}`
NewTxnid(t, id) == <<"t","x","n","_", Digit(t), "_">> \o id

\* The parameters of the payment form, as the create routes sign them
paymentParams(txnid, plan, userId, udf) ==
  [ key |-> merchantKey, txnid |-> txnid, amount |-> plan.amount,
    productinfo |-> plan.name, firstname |-> userId, email |-> EmptyText, udf |-> udf ]

\* adapter.create: the collaborator assigns the next id
NewRow(rows, plan, referenceId, t) ==
  [ id |-> SubId(Len(rows) + 1),
    plan |-> plan.name,
    referenceId |-> referenceId,
    payuTransactionId |-> Null,
    payuMihpayid |-> Null,
    status |-> "created",
    currentStart |-> Null,
    endedAt |-> Null,
    cancelledAt |-> Null,
    pausedAt |-> Null,
    quantity |-> Some(1),
    totalCount |-> Some(plan.totalCount),
    paidCount |-> Some(0),
    remainingCount |-> Some(plan.totalCount),
    cancelAtCycleEnd |-> FALSE,
    updatedAt |-> Some(t) ]

createSubscription(opts, rows, session, body, existing, t) ==
  LET ref == referenceMiddleware(opts, session, body.referenceId)
      plan == getPlanByName(body.plan)
      found == <<Entry("findOne", "referenceId", RowIdOf(existing), FALSE)>>
      row == NewRow(rows, Val(plan), ref.referenceId, t)
  IN IF ref.error # Null THEN Outcome(rows, ref.log, Val(ref.error))
     ELSE IF ~opts.subscriptionEnabled
     THEN Outcome(rows, ref.log, Response("BAD_REQUEST", "INVALID_REQUEST_BODY"))
     ELSE IF plan = Null
     THEN Outcome(rows, ref.log, Response("NOT_FOUND", "SUBSCRIPTION_PLAN_NOT_FOUND"))
     ELSE IF existing # Null /\ Val(existing).plan = body.plan
     THEN Outcome(rows, ref.log \o found, Response("CONFLICT", "ALREADY_SUBSCRIBED_PLAN"))
     ELSE Outcome(Append(rows, row),
                  ref.log \o found \o <<Entry("create", "subscription", Some(row.id), FALSE)>>,
                  [Ok EXCEPT
                     !.txnid = Some(NewTxnid(t, row.id)),
                     !.hash = Some(generatePayUHash(
                                paymentParams(NewTxnid(t, row.id), Val(plan), Val(session),
                                  subscriptionUdfSet(Val(session), row.id, ref.referenceId)),
                                merchantSalt))])

payAndSubscribe(opts, rows, session, body, t) ==
  LET ref == referenceMiddleware(opts, session, body.referenceId)
      plan == getPlanByName(body.plan)
      row == NewRow(rows, Val(plan), ref.referenceId, t)
  IN IF ref.error # Null THEN Outcome(rows, ref.log, Val(ref.error))
     ELSE IF ~opts.subscriptionEnabled
     THEN Outcome(rows, ref.log, Response("BAD_REQUEST", "INVALID_REQUEST_BODY"))
     ELSE IF plan = Null
     THEN Outcome(rows, ref.log, Response("NOT_FOUND", "SUBSCRIPTION_PLAN_NOT_FOUND"))
     ELSE Outcome(Append(rows, row),
                  ref.log \o <<Entry("create", "subscription", Some(row.id), FALSE)>>,
                  [Ok EXCEPT
                     !.txnid = Some(NewTxnid(t, row.id)),
                     !.hash = Some(generatePayUHash(
                                paymentParams(NewTxnid(t, row.id), Val(plan), Val(session),
                                  [i \in 1..10 |-> Null]),
                                merchantSalt))])

\* updateData as the route builds it
updateData(body, plan, t) ==
  IF Truthy(body.plan) /\ body.quantity # Null
  THEN [ updatedAt |-> Some(t), plan |-> Val(plan).name,
         totalCount |-> Some(Val(plan).totalCount), quantity |-> body.quantity ]
  ELSE IF Truthy(body.plan)
  THEN [ updatedAt |-> Some(t), plan |-> Val(plan).name,
         totalCount |-> Some(Val(plan).totalCount) ]
  ELSE IF body.quantity # Null
  THEN [ updatedAt |-> Some(t), quantity |-> body.quantity ]
  ELSE [ updatedAt |-> Some(t) ]

updateSubscription(opts, rows, session, body, subscription, t) ==
  LET ref == referenceMiddleware(opts, session, body.referenceId)
      plan == IF Truthy(body.plan) THEN getPlanByName(Val(body.plan)) ELSE Null
      found == <<Entry("findOne", "referenceId", RowIdOf(subscription), FALSE)>>
      id == Val(subscription).id
  IN IF ref.error # Null THEN Outcome(rows, ref.log, Val(ref.error))
     ELSE IF subscription = Null
     THEN Outcome(rows, ref.log \o found, Response("NOT_FOUND", "SUBSCRIPTION_NOT_FOUND"))
     ELSE IF Truthy(body.plan) /\ plan = Null
     THEN Outcome(rows, ref.log \o found,
                  Response("NOT_FOUND", "SUBSCRIPTION_PLAN_NOT_FOUND"))
     ELSE Outcome([i \in DOMAIN rows |->
                     IF rows[i].id = id THEN Merge(rows[i], updateData(body, plan, t))
                     ELSE rows[i]],
                  ref.log \o found \o <<Entry("update", "id", Some(id), FALSE)>>,
                  Ok)

\* The row with this id after adapter.update({ where: id, update })
UpdateRow(rows, id, update) ==
  [i \in DOMAIN rows |-> IF rows[i].id = id THEN Merge(rows[i], update) ELSE rows[i]]

\* The parsed body of a gateway response: the fields the routes look at
GatewayResult(status, error) == [status |-> status, error |-> error, isVPAValid |-> Null]

\* result.status === 0 || result.error
commandFailed(result) == result.status = Some(0) \/ Truthy(result.error)

\* fetch(`${apiUrl}/merchant/${command}`, { key, command, var1, hash })
fetch(command, var1) == <<Entry("fetch", command, Some(var1), FALSE)>>

\* The transport failed: fetch or response.json() threw and there is no answer
TransportError == [status |-> Null, error |-> Null, isVPAValid |-> Null, threw |-> TRUE]

fetchThrew(result) == "threw" \in DOMAIN result

cancelSubscriptionWriteFirst(opts, rows, session, body, subscription, result, t) ==
  LET ref == referenceMiddleware(opts, session, body.referenceId)
      found == <<Entry("findOne", "referenceId", RowIdOf(subscription), FALSE)>>
      id == Val(subscription).id
      updated == <<Entry("update", "id", Some(id), FALSE)>>
      written == UpdateRow(rows, id,
                   [ status |-> "cancelled", cancelledAt |-> Some(t),
                     endedAt |-> Some(t), updatedAt |-> Some(t) ])
      revoke == fetch("mandate_revoke", OrEmpty(Val(subscription).payuTransactionId))
  IN IF ref.error # Null THEN Outcome(rows, ref.log, Val(ref.error))
     ELSE IF subscription = Null
     THEN Outcome(rows, ref.log \o found, Response("NOT_FOUND", "SUBSCRIPTION_NOT_FOUND"))
     ELSE IF Val(subscription).status = "cancelled"
     THEN Outcome(rows, ref.log \o found,
                  Response("BAD_REQUEST", "SUBSCRIPTION_ALREADY_CANCELLED"))
     ELSE IF Val(subscription).status \in {"cancelled", "completed", "expired"}
     THEN Outcome(rows, ref.log \o found,
                  Response("BAD_REQUEST", "SUBSCRIPTION_IN_TERMINAL_STATE"))
     ELSE IF body.cancelAtCycleEnd
     THEN Outcome(UpdateRow(rows, id, [cancelAtCycleEnd |-> TRUE, updatedAt |-> Some(t)]),
                  ref.log \o found \o updated, Ok)
     ELSE IF fetchThrew(result)
     THEN Outcome(written,
                  ref.log \o found \o updated \o <<[revoke[1] EXCEPT !.threw = TRUE]>>,
                  Response("INTERNAL_SERVER_ERROR", "uncaught"))
     ELSE IF commandFailed(result)
     THEN Outcome(written, ref.log \o found \o updated \o revoke,
                  Response("INTERNAL_SERVER_ERROR", "MANDATE_REVOKE_FAILED"))
     ELSE Outcome(written, ref.log \o found \o updated \o revoke, Ok)

cancelSubscriptionAtCycleEndRevokes(opts, rows, session, body, subscription, result, t) ==
  LET ref == referenceMiddleware(opts, session, body.referenceId)
      found == <<Entry("findOne", "referenceId", RowIdOf(subscription), FALSE)>>
      id == Val(subscription).id
      updated == <<Entry("update", "id", Some(id), FALSE)>>
      revoke == fetch("mandate_revoke", OrEmpty(Val(subscription).payuTransactionId))
  IN IF ref.error # Null THEN Outcome(rows, ref.log, Val(ref.error))
     ELSE IF subscription = Null
     THEN Outcome(rows, ref.log \o found, Response("NOT_FOUND", "SUBSCRIPTION_NOT_FOUND"))
     ELSE IF Val(subscription).status = "cancelled"
     THEN Outcome(rows, ref.log \o found,
                  Response("BAD_REQUEST", "SUBSCRIPTION_ALREADY_CANCELLED"))
     ELSE IF Val(subscription).status \in {"cancelled", "completed", "expired"}
     THEN Outcome(rows, ref.log \o found,
                  Response("BAD_REQUEST", "SUBSCRIPTION_IN_TERMINAL_STATE"))
     ELSE IF body.cancelAtCycleEnd
     THEN Outcome(UpdateRow(rows, id, [cancelAtCycleEnd |-> TRUE, updatedAt |-> Some(t)]),
                  ref.log \o found \o revoke \o updated, Ok)
     ELSE IF fetchThrew(result)
     THEN Outcome(rows, ref.log \o found \o <<[revoke[1] EXCEPT !.threw = TRUE]>>,
                  Response("INTERNAL_SERVER_ERROR", "uncaught"))
     ELSE IF commandFailed(result)
     THEN Outcome(rows, ref.log \o found \o revoke,
                  Response("INTERNAL_SERVER_ERROR", "MANDATE_REVOKE_FAILED"))
     ELSE Outcome(UpdateRow(rows, id,
                    [ status |-> "cancelled", cancelledAt |-> Some(t),
                      endedAt |-> Some(t), updatedAt |-> Some(t) ]),
                  ref.log \o found \o revoke \o updated, Ok)

cancelSubscription(opts, rows, session, body, subscription, result, t) ==
  LET ref == referenceMiddleware(opts, session, body.referenceId)
      found == <<Entry("findOne", "referenceId", RowIdOf(subscription), FALSE)>>
      id == Val(subscription).id
      updated == <<Entry("update", "id", Some(id), FALSE)>>
      revoke == fetch("mandate_revoke", OrEmpty(Val(subscription).payuTransactionId))
  IN IF ref.error # Null THEN Outcome(rows, ref.log, Val(ref.error))
     ELSE IF subscription = Null
     THEN Outcome(rows, ref.log \o found, Response("NOT_FOUND", "SUBSCRIPTION_NOT_FOUND"))
     ELSE IF Val(subscription).status = "cancelled"
     THEN Outcome(rows, ref.log \o found,
                  Response("BAD_REQUEST", "SUBSCRIPTION_ALREADY_CANCELLED"))
     ELSE IF Val(subscription).status \in {"cancelled", "completed", "expired"}
     THEN Outcome(rows, ref.log \o found,
                  Response("BAD_REQUEST", "SUBSCRIPTION_IN_TERMINAL_STATE"))
     ELSE IF body.cancelAtCycleEnd
     THEN Outcome(UpdateRow(rows, id, [cancelAtCycleEnd |-> TRUE, updatedAt |-> Some(t)]),
                  ref.log \o found \o updated, Ok)
     ELSE IF fetchThrew(result)
     THEN Outcome(rows, ref.log \o found \o <<[revoke[1] EXCEPT !.threw = TRUE]>>,
                  Response("INTERNAL_SERVER_ERROR", "uncaught"))
     ELSE IF commandFailed(result)
     THEN Outcome(rows, ref.log \o found \o revoke,
                  Response("INTERNAL_SERVER_ERROR", "MANDATE_REVOKE_FAILED"))
     ELSE Outcome(UpdateRow(rows, id,
                    [ status |-> "cancelled", cancelledAt |-> Some(t),
                      endedAt |-> Some(t), updatedAt |-> Some(t) ]),
                  ref.log \o found \o revoke \o updated, Ok)

pauseSubscription(opts, rows, session, body, subscription, t) ==
  LET ref == referenceMiddleware(opts, session, body.referenceId)
      found == <<Entry("findOne", "referenceId", RowIdOf(subscription), FALSE)>>
      id == Val(subscription).id
  IN IF ref.error # Null THEN Outcome(rows, ref.log, Val(ref.error))
     ELSE IF subscription = Null
     THEN Outcome(rows, ref.log \o found, Response("NOT_FOUND", "SUBSCRIPTION_NOT_FOUND"))
     ELSE IF Val(subscription).status # "active"
     THEN Outcome(rows, ref.log \o found, Response("BAD_REQUEST", "SUBSCRIPTION_NOT_ACTIVE"))
     ELSE IF Val(subscription).status = "paused"
     THEN Outcome(rows, ref.log \o found,
                  Response("BAD_REQUEST", "SUBSCRIPTION_ALREADY_PAUSED"))
     ELSE Outcome(UpdateRow(rows, id,
                    [status |-> "paused", pausedAt |-> Some(t), updatedAt |-> Some(t)]),
                  ref.log \o found \o <<Entry("update", "id", Some(id), FALSE)>>, Ok)

resumeSubscriptionKeepsPausedAt(opts, rows, session, body, subscription, t) ==
  LET ref == referenceMiddleware(opts, session, body.referenceId)
      found == <<Entry("findOne", "referenceId", RowIdOf(subscription), FALSE)>>
      id == Val(subscription).id
  IN IF ref.error # Null THEN Outcome(rows, ref.log, Val(ref.error))
     ELSE IF subscription = Null
     THEN Outcome(rows, ref.log \o found, Response("NOT_FOUND", "SUBSCRIPTION_NOT_FOUND"))
     ELSE IF Val(subscription).status # "paused"
     THEN Outcome(rows, ref.log \o found, Response("BAD_REQUEST", "SUBSCRIPTION_NOT_PAUSED"))
     ELSE Outcome(UpdateRow(rows, id,
                    [status |-> "active", updatedAt |-> Some(t)]),
                  ref.log \o found \o <<Entry("update", "id", Some(id), FALSE)>>, Ok)

resumeSubscription(opts, rows, session, body, subscription, t) ==
  LET ref == referenceMiddleware(opts, session, body.referenceId)
      found == <<Entry("findOne", "referenceId", RowIdOf(subscription), FALSE)>>
      id == Val(subscription).id
  IN IF ref.error # Null THEN Outcome(rows, ref.log, Val(ref.error))
     ELSE IF subscription = Null
     THEN Outcome(rows, ref.log \o found, Response("NOT_FOUND", "SUBSCRIPTION_NOT_FOUND"))
     ELSE IF Val(subscription).status # "paused"
     THEN Outcome(rows, ref.log \o found, Response("BAD_REQUEST", "SUBSCRIPTION_NOT_PAUSED"))
     ELSE Outcome(UpdateRow(rows, id,
                    [status |-> "active", pausedAt |-> Null, updatedAt |-> Some(t)]),
                  ref.log \o found \o <<Entry("update", "id", Some(id), FALSE)>>, Ok)

\* ctx.json({ subscriptions: subscriptions ? [subscriptions] : [] })
listSubscriptions(opts, rows, session, query, subscriptions) ==
  LET ref == referenceMiddleware(opts, session, query.referenceId)
      found == <<Entry("findOne", "referenceId", RowIdOf(subscriptions), FALSE)>>
  IN IF ref.error # Null THEN Outcome(rows, ref.log, Val(ref.error))
     ELSE Outcome(rows, ref.log \o found,
                  [ status |-> "OK", code |-> "", txnid |-> Null, hash |-> Null,
                    subscriptions |-> IF subscriptions # Null
                                      THEN <<Val(subscriptions)>> ELSE <<>> ])

-----------------------------------------------------------------------------
(* Gateway command routes (routes.ts) *)

\* payuSessionMiddleware(ctx) threw
Unauthorized == Response("UNAUTHORIZED", "UNAUTHORIZED")

\* adapter.findOne({ model: "subscription", where: [{ field: "id", value }] })
subscriptionById(rows, subscriptionId) == FirstRow(rows, "id", subscriptionId)

foundById(subscription) == <<Entry("findOne", "id", RowIdOf(subscription), FALSE)>>

upi == <<"u","p","i">>
netbanking == <<"n","e","t","b","a","n","k","i","n","g">>

preDebitNotify(rows, session, body, result) ==
  LET subscription == subscriptionById(rows, body.subscriptionId)
  IN IF session = Null THEN Outcome(rows, <<>>, Unauthorized)
     ELSE IF subscription = Null
     THEN Outcome(rows, foundById(subscription),
                  Response("NOT_FOUND", "SUBSCRIPTION_NOT_FOUND"))
     ELSE Outcome(rows, foundById(subscription) \o fetch("pre_debit_SI", body.txnid),
                  IF commandFailed(result)
                  THEN Response("INTERNAL_SERVER_ERROR", "PRE_DEBIT_NOTIFICATION_FAILED")
                  ELSE Ok)

chargeSubscription(rows, session, body, result) ==
  LET subscription == subscriptionById(rows, body.subscriptionId)
  IN IF session = Null THEN Outcome(rows, <<>>, Unauthorized)
     ELSE IF subscription = Null
     THEN Outcome(rows, foundById(subscription),
                  Response("NOT_FOUND", "SUBSCRIPTION_NOT_FOUND"))
     ELSE IF Val(subscription).status # "active"
     THEN Outcome(rows, foundById(subscription),
                  Response("BAD_REQUEST", "SUBSCRIPTION_NOT_ACTIVE"))
     ELSE Outcome(rows, foundById(subscription) \o fetch("si_transaction", body.txnid),
                  IF commandFailed(result)
                  THEN Response("INTERNAL_SERVER_ERROR", "PAYMENT_INITIATION_FAILED")
                  ELSE Ok)

updateSI(rows, session, body, result) ==
  LET subscription == subscriptionById(rows, body.subscriptionId)
  IN IF session = Null THEN Outcome(rows, <<>>, Unauthorized)
     ELSE IF subscription = Null
     THEN Outcome(rows, foundById(subscription),
                  Response("NOT_FOUND", "SUBSCRIPTION_NOT_FOUND"))
     ELSE Outcome(rows,
                  foundById(subscription)
                    \o fetch("update_si", OrEmpty(Val(subscription).payuTransactionId)),
                  IF commandFailed(result)
                  THEN Response("INTERNAL_SERVER_ERROR", "SI_UPDATE_FAILED")
                  ELSE Ok)

\* mandateType || subscription.payuMandateType || "card": the stored rows carry no
\* mandate type
mandateStatus(rows, session, query, result) ==
  LET subscription == subscriptionById(rows, query.subscriptionId)
      command == IF query.mandateType = Some(upi) THEN "upi_mandate_status"
                 ELSE IF query.mandateType = Some(netbanking)
                 THEN "net_banking_mandate_status"
                 ELSE "check_mandate_status"
  IN IF session = Null THEN Outcome(rows, <<>>, Unauthorized)
     ELSE IF subscription = Null
     THEN Outcome(rows, foundById(subscription),
                  Response("NOT_FOUND", "SUBSCRIPTION_NOT_FOUND"))
     ELSE Outcome(rows,
                  foundById(subscription)
                    \o fetch(command, OrEmpty(Val(subscription).payuTransactionId)),
                  IF commandFailed(result)
                  THEN Response("INTERNAL_SERVER_ERROR", "MANDATE_STATUS_CHECK_FAILED")
                  ELSE Ok)

mandateModify(rows, session, body, result) ==
  LET subscription == subscriptionById(rows, body.subscriptionId)
      command == IF body.mandateType = Some(upi) THEN "upi_mandate_modify"
                 ELSE "mandate_modify"
  IN IF session = Null THEN Outcome(rows, <<>>, Unauthorized)
     ELSE IF subscription = Null
     THEN Outcome(rows, foundById(subscription),
                  Response("NOT_FOUND", "SUBSCRIPTION_NOT_FOUND"))
     ELSE Outcome(rows,
                  foundById(subscription)
                    \o fetch(command, OrEmpty(Val(subscription).payuTransactionId)),
                  IF commandFailed(result)
                  THEN Response("INTERNAL_SERVER_ERROR", "MANDATE_MODIFY_FAILED")
                  ELSE Ok)

verifyPayment(rows, session, body, result) ==
  IF session = Null THEN Outcome(rows, <<>>, Unauthorized)
  ELSE Outcome(rows, fetch("verify_payment", body.txnid),
               IF commandFailed(result)
               THEN Response("INTERNAL_SERVER_ERROR", "PAYMENT_VERIFICATION_FAILED")
               ELSE Ok)

\* return ctx.json({ transaction: result })
checkPayment(rows, session, body, result) ==
  IF session = Null THEN Outcome(rows, <<>>, Unauthorized)
  ELSE Outcome(rows, fetch("check_payment", body.mihpayid), Ok)

initiateRefund(rows, session, body, result) ==
  IF session = Null THEN Outcome(rows, <<>>, Unauthorized)
  ELSE Outcome(rows, fetch("cancel_refund_transaction", body.mihpayid),
               IF commandFailed(result)
               THEN Response("INTERNAL_SERVER_ERROR", "REFUND_INITIATION_FAILED")
               ELSE Ok)

refundStatus(rows, session, query, result) ==
  IF session = Null THEN Outcome(rows, <<>>, Unauthorized)
  ELSE IF Truthy(query.requestId)
  THEN Outcome(rows, fetch("check_action_status", Val(query.requestId)), Ok)
  ELSE IF Truthy(query.mihpayid)
  THEN Outcome(rows, fetch("check_action_status", Val(query.mihpayid)), Ok)
  ELSE Outcome(rows, <<>>, Response("BAD_REQUEST", "INVALID_REQUEST_BODY"))

listRefunds(rows, session, body, result) ==
  IF session = Null THEN Outcome(rows, <<>>, Unauthorized)
  ELSE Outcome(rows,
               fetch("get_all_refunds_from_transaction_ids", join(body.mihpayids, Pipe)),
               Ok)

transactionInfo(rows, session, query, result) ==
  IF session = Null THEN Outcome(rows, <<>>, Unauthorized)
  ELSE Outcome(rows, fetch("get_transaction_info", query.txnid), Ok)

transactionDetails(rows, session, query, result) ==
  IF session = Null THEN Outcome(rows, <<>>, Unauthorized)
  ELSE Outcome(rows, fetch("get_Transaction_Details", query.startDate), Ok)

\* result.status === 0 || result.isVPAValid === 0
validateVpa(rows, session, body, result) ==
  IF session = Null THEN Outcome(rows, <<>>, Unauthorized)
  ELSE Outcome(rows, fetch("validateVPA", body.vpa),
               IF result.status = Some(0) \/ result.isVPAValid = Some(0)
               THEN Response("BAD_REQUEST", "INVALID_VPA")
               ELSE Ok)

-----------------------------------------------------------------------------
(* Requests the environment sends *)

t_A == <<"t","A">>          \* the gateway transaction id stored on the first row
t_X == <<"t","X">>          \* a transaction id no row carries
otherSalt == <<"z">>        \* a salt that is not the merchant's

BodyStatuses ==
  { Null, Some(s_success), Some(<<"C","a","p","t","u","r","e","d">>),
    Some(s_failure), Some(s_failed), Some(s_pending), Some(s_cancelled),
    Some(s_halted), Some(s_completed), Some(s_paused), Some(s_resumed),
    Some(s_active), Some(<<"r","e","f","u","n","d","e","d">>) }

BodyNotificationTypes ==
  { Some(s_mandate_revoked), Some(<<"S","I","_","C","A","N","C","E","L","L","E","D">>),
    Some(s_mandate_modified), Some(s_si_modified), Some(<<"d","e","b","i","t">>) }

\* (status, notificationType) pairs: every status alone, and every notification
\* type beside no status, a payment status and a lifecycle status
Classifications ==
  {<<s, Null>> : s \in BodyStatuses}
    \cup (({Null, Some(s_success), Some(s_active), Some(s_paused)}) \X BodyNotificationTypes)
    \cup {<<Some(<<"r","e","f","u","n","d","e","d">>), Some(<<"d","e","b","i","t">>)>>}

\* The pairs crossed with lookup keys and faults: one per handler
HandlerClassifications ==
  {<<s, Null>> : s \in BodyStatuses \ {Null, Some(s_failed), Some(s_resumed)}}
    \cup {<<Some(s_success), Some(s_mandate_revoked)>>,
          <<Some(s_active), Some(s_si_modified)>>}

\* The pairs crossed with signers
SignedClassifications ==
  { <<Some(s_success), Null>>, <<Some(s_failure), Null>>, <<Some(s_cancelled), Null>>,
    <<Null, Null>>, <<Some(s_active), Some(s_mandate_revoked)>> }

\* (txnid, udf4): the first row by its transaction id (the plain delivery), both
\* rows at once, the second row by its id, no row, and no txnid at all
PlainLookup == <<Some(t_A), Null>>

LookupKeys ==
  { <<Some(t_A), Some(SubId(2))>>, <<Some(t_X), Some(SubId(2))>>,
    <<Some(t_X), Null>>, <<Null, Some(SubId(2))>> }

NoFault == <<>>

\* The first call of a collaborator throws
FirstCallFaults == { <<"findOne", 1>>, <<"update", 1>>, <<"plans", 1>>, <<"callback", 1>> }

\* The second call throws: only the two-step success flow makes one
SecondCallFaults == { <<"findOne", 2>>, <<"update", 2>>, <<"plans", 2>>, <<"callback", 2>> }

UnsignedBody(status, notificationType, txnid, udf4) ==
  [ hash |-> Null,
    key |-> Some(merchantKey),
    txnid |-> txnid,
    amount |-> Some(<<"4","9","9">>),
    productinfo |-> Some(p_Monthly),
    firstname |-> Some(u_1),
    email |-> Null,
    status |-> status,
    mihpayid |-> Some(<<"m","1">>),
    udf |-> [i \in 1..10 |-> IF i = 4 THEN udf4 ELSE Null],
    notificationType |-> notificationType ]

\* The digest a sender holding `salt` attaches to the fields of `body`
Signature(body, salt) ==
  createHmac(EmptyText, reverseHashString(verifyParams(body), salt))

\* signer: "none" sends no hash; "gateway" signs the delivered fields with the
\* merchant salt; "forger" signs them with another salt; "replay" attaches the
\* gateway's signature of the same fields with status failure.
SignedBody(body, signer) ==
  [body EXCEPT !.hash =
     CASE signer = "none" -> Null
       [] signer = "gateway" -> Some(Signature(body, merchantSalt))
       [] signer = "forger" -> Some(Signature(body, otherSalt))
       [] signer = "replay" ->
            Some(Signature([body EXCEPT !.status = Some(s_failure)], merchantSalt))]

BadSigners == {"none", "forger", "replay"}

Delivery(c, k, signer, fault) ==
  [ body |-> SignedBody(UnsignedBody(c[1], c[2], k[1], k[2]), signer),
    signer |-> signer, fault |-> fault ]

\* Every delivery varies the classification; beside it, at most one of lookup key,
\* signer and injected fault departs from the plain delivery.
WebhookRequests ==
  {Delivery(c, PlainLookup, "gateway", NoFault) : c \in Classifications}
    \cup {Delivery(c, k, "gateway", NoFault) : c \in HandlerClassifications, k \in LookupKeys}
    \cup {Delivery(c, PlainLookup, s, NoFault) : c \in SignedClassifications, s \in BadSigners}
    \cup {Delivery(c, PlainLookup, "gateway", f) :
            c \in HandlerClassifications, f \in FirstCallFaults}
    \cup {Delivery(<<Some(s_success), Null>>, PlainLookup, "gateway", f) :
            f \in SecondCallFaults}

Sessions == { Null, Some(u_1) }

ReferenceIds == { Null, Some(o_1) }

PlanNames == { p_Monthly, p_Trial, p_Unlimited, toLowerCase(p_Monthly), <<"G","o","l","d">> }

\* One request without a session; with one, every reference and plan
CreateRequests ==
  { r \in [session : Sessions, referenceId : ReferenceIds, plan : PlanNames] :
      r.session = Null => r.referenceId = Null /\ r.plan = p_Monthly }

UpdateRequests ==
  { r \in [ session : Sessions, referenceId : ReferenceIds,
            plan : {Null} \cup {Some(p) : p \in PlanNames}, quantity : {Null, Some(5)} ] :
      /\ r.session = Null => r.referenceId = Null /\ r.plan = Null /\ r.quantity = Null
      /\ r.quantity # Null => r.plan \in {Null, Some(p_Trial)} }

\* One request without a session; with one, the user's own reference and the
\* organization's
ReferenceRequests ==
  { r \in [session : Sessions, referenceId : ReferenceIds] :
      r.session = Null => r.referenceId = Null }

\* What the gateway answers to a command: accepted, refused with status 0, or an
\* error message
Accepted == GatewayResult(Some(1), Null)

GatewayResults ==
  { Accepted, GatewayResult(Some(0), Null), GatewayResult(Null, Some(<<"e">>)) }

\* Cancel now under every gateway answer and a failed transport, or at the end of
\* the cycle
CancelChoices ==
  { [cancelAtCycleEnd |-> FALSE, result |-> g] : g \in GatewayResults \cup {TransportError} }
    \cup { [cancelAtCycleEnd |-> TRUE, result |-> Accepted] }

\* Every status a row can hold
AllStatuses ==
  { "created", "authenticated", "active", "pending", "halted", "paused",
    "cancelled", "completed", "expired" }

\* The answers to validateVPA also say whether the address is valid
VpaResults ==
  GatewayResults \cup { [Accepted EXCEPT !.isVPAValid = Some(v)] : v \in {0, 1} }

m_1 == <<"m","1">>          \* a gateway payment id

\* Commands on a subscription named by id: both stored rows and an id no row has
BySubscriptionRequests ==
  { r \in [session : Sessions, subscriptionId : {SubId(1), SubId(2), SubId(9)}] :
      r.session = Null => r.subscriptionId = SubId(1) }

MandateTypes == { Null, Some(upi), Some(netbanking) }

\* Refund status by request id, by payment id, or by neither
RefundStatusQueries ==
  { [requestId |-> Some(<<"r","1">>), mihpayid |-> Null],
    [requestId |-> Null, mihpayid |-> Some(m_1)],
    [requestId |-> Null, mihpayid |-> Null] }

-----------------------------------------------------------------------------
(* State machine *)

\* The rows already in the store: the fixture of the handlers' tests (an active
\* Monthly subscription, 3 of 12 charges paid) and a row without counters.
SeedRows ==
  << [ id |-> SubId(1), plan |-> p_Monthly, referenceId |-> u_1,
       payuTransactionId |-> Some(t_A), payuMihpayid |-> Null,
       status |-> "active", currentStart |-> Some(0), endedAt |-> Null,
       cancelledAt |-> Null, pausedAt |-> Null, quantity |-> Some(1),
       totalCount |-> Some(12), paidCount |-> Some(3), remainingCount |-> Some(9),
       cancelAtCycleEnd |-> FALSE, updatedAt |-> Some(0) ],
     [ id |-> SubId(2), plan |-> p_Unlimited, referenceId |-> o_1,
       payuTransactionId |-> Null, payuMihpayid |-> Null,
       status |-> "created", currentStart |-> Null, endedAt |-> Null,
       cancelledAt |-> Null, pausedAt |-> Null, quantity |-> Some(1),
       totalCount |-> Null, paidCount |-> Null, remainingCount |-> Null,
       cancelAtCycleEnd |-> FALSE, updatedAt |-> Some(0) ] >>

OptionSets ==
  { [subscriptionEnabled |-> TRUE, organization |-> "allows"],
    [subscriptionEnabled |-> FALSE, organization |-> "disabled"] }

NoRequest == [route |-> "none"]

\* No delivery has arrived yet
NoDeliveries == [d \in 1..MaxDeliveries |-> [pc |-> "start", body |-> <<>>, sub |-> <<>>]]

Init ==
  /\ subs = SeedRows
  /\ now = 1
  /\ options \in OptionSets
  /\ before = SeedRows
  /\ req = NoRequest
  /\ resp = Ok
  /\ log = <<>>
  /\ inflight = NoDeliveries

Answer(out) ==
  /\ subs' = out.subs
  /\ before' = subs
  /\ log' = out.log
  /\ resp' = out.resp
  /\ now' = now + 1
  /\ UNCHANGED <<options, inflight>>

Webhook ==
  /\ now <= MaxNow
  /\ \E r \in WebhookRequests :
       /\ req' = [route |-> "webhook", body |-> r.body, signer |-> r.signer, fault |-> r.fault]
       /\ Answer(webhook(options, subs, r.body, r.fault, now))

CreateSubscription ==
  /\ now <= MaxNow
  /\ options.subscriptionEnabled
  /\ Len(subs) < MaxSubs
  /\ \E r \in CreateRequests :
       LET body == [plan |-> r.plan, referenceId |-> r.referenceId]
           session == r.session
           referenceId == r.referenceId
           ref == referenceMiddleware(options, session, referenceId)
           hits == IF ref.error = Null
                   THEN Matching(subs, ref.referenceId, {"active", "authenticated"})
                   ELSE {}
       IN \E existing \in Answers(subs, hits) :
            /\ req' = [route |-> "createSubscription", session |-> session, body |-> body]
            /\ Answer(createSubscription(options, subs, session, body, existing, now))

PayAndSubscribe ==
  /\ now <= MaxNow
  /\ options.subscriptionEnabled
  /\ Len(subs) < MaxSubs
  /\ \E r \in CreateRequests :
       LET body == [plan |-> r.plan, referenceId |-> r.referenceId]
           session == r.session
           referenceId == r.referenceId
       IN /\ req' = [route |-> "payAndSubscribe", session |-> session, body |-> body]
          /\ Answer(payAndSubscribe(options, subs, session, body, now))

UpdateSubscription ==
  /\ now <= MaxNow
  /\ options.subscriptionEnabled
  /\ \E r \in UpdateRequests :
       LET body == [plan |-> r.plan, referenceId |-> r.referenceId, quantity |-> r.quantity]
           session == r.session
           referenceId == r.referenceId
           ref == referenceMiddleware(options, session, referenceId)
           hits == IF ref.error = Null
                   THEN Matching(subs, ref.referenceId, {"active", "authenticated"})
                   ELSE {}
       IN \E subscription \in Answers(subs, hits) :
            /\ req' = [route |-> "updateSubscription", session |-> session, body |-> body]
            /\ Answer(updateSubscription(options, subs, session, body, subscription, now))

\* The row a findOne with this filter answers with: any row matching it
Lookup(session, referenceId, statuses) ==
  LET ref == referenceMiddleware(options, session, referenceId)
  IN Answers(subs, IF ref.error = Null
                   THEN Matching(subs, ref.referenceId, statuses) ELSE {})

CancelSubscription ==
  /\ now <= MaxNow
  /\ options.subscriptionEnabled
  /\ \E r \in ReferenceRequests, c \in CancelChoices :
       LET body == [referenceId |-> r.referenceId, cancelAtCycleEnd |-> c.cancelAtCycleEnd]
       IN \E subscription \in Lookup(r.session, r.referenceId, {"active", "authenticated"}) :
            /\ req' = [ route |-> "cancelSubscription", session |-> r.session,
                        body |-> body, result |-> c.result ]
            /\ Answer(cancelSubscription(options, subs, r.session, body, subscription,
                                         c.result, now))

PauseSubscription ==
  /\ now <= MaxNow
  /\ options.subscriptionEnabled
  /\ \E r \in ReferenceRequests :
       LET body == [referenceId |-> r.referenceId]
       IN \E subscription \in Lookup(r.session, r.referenceId, {"active"}) :
            /\ req' = [route |-> "pauseSubscription", session |-> r.session, body |-> body]
            /\ Answer(pauseSubscription(options, subs, r.session, body, subscription, now))

ResumeSubscription ==
  /\ now <= MaxNow
  /\ options.subscriptionEnabled
  /\ \E r \in ReferenceRequests :
       LET body == [referenceId |-> r.referenceId]
       IN \E subscription \in Lookup(r.session, r.referenceId, {"paused"}) :
            /\ req' = [route |-> "resumeSubscription", session |-> r.session, body |-> body]
            /\ Answer(resumeSubscription(options, subs, r.session, body, subscription, now))

ListSubscriptions ==
  /\ now <= MaxNow
  /\ options.subscriptionEnabled
  /\ \E r \in ReferenceRequests :
       LET query == [referenceId |-> r.referenceId]
       IN \E subscriptions \in Lookup(r.session, r.referenceId, AllStatuses) :
            /\ req' = [route |-> "listSubscriptions", session |-> r.session, body |-> query]
            /\ Answer(listSubscriptions(options, subs, r.session, query, subscriptions))

Next ==
  \/ Webhook
  \/ CreateSubscription
  \/ PayAndSubscribe
  \/ UpdateSubscription
  \/ CancelSubscription
  \/ PauseSubscription
  \/ ResumeSubscription
  \/ ListSubscriptions

Spec == Init /\ [][Next]_vars

TypeOK == now \in 1..(MaxNow + 1)

-----------------------------------------------------------------------------
(* The gateway command routes on their own: every route that sends a command  *)
(* to the gateway, under every answer of the gateway                          *)

PreDebitNotify ==
  /\ now <= MaxNow
  /\ options.subscriptionEnabled
  /\ \E r \in BySubscriptionRequests, result \in GatewayResults :
       LET body == [subscriptionId |-> r.subscriptionId, txnid |-> t_X]
       IN /\ req' = [ route |-> "preDebitNotify", session |-> r.session, body |-> body,
                      result |-> result ]
          /\ Answer(preDebitNotify(subs, r.session, body, result))

ChargeSubscription ==
  /\ now <= MaxNow
  /\ options.subscriptionEnabled
  /\ \E r \in BySubscriptionRequests, result \in GatewayResults :
       LET body == [subscriptionId |-> r.subscriptionId, txnid |-> t_X]
       IN /\ req' = [ route |-> "chargeSubscription", session |-> r.session,
                      body |-> body, result |-> result ]
          /\ Answer(chargeSubscription(subs, r.session, body, result))

UpdateSI ==
  /\ now <= MaxNow
  /\ options.subscriptionEnabled
  /\ \E r \in BySubscriptionRequests, result \in GatewayResults :
       LET body == [subscriptionId |-> r.subscriptionId]
       IN /\ req' = [ route |-> "updateSI", session |-> r.session, body |-> body,
                      result |-> result ]
          /\ Answer(updateSI(subs, r.session, body, result))

MandateStatus ==
  /\ now <= MaxNow
  /\ \E r \in BySubscriptionRequests, mandateType \in MandateTypes,
        result \in GatewayResults :
       LET query == [subscriptionId |-> r.subscriptionId, mandateType |-> mandateType]
       IN /\ r.subscriptionId # SubId(1) => mandateType = Null
          /\ req' = [ route |-> "mandateStatus", session |-> r.session, body |-> query,
                      result |-> result ]
          /\ Answer(mandateStatus(subs, r.session, query, result))

MandateModify ==
  /\ now <= MaxNow
  /\ \E r \in BySubscriptionRequests, mandateType \in MandateTypes,
        result \in GatewayResults :
       LET body == [subscriptionId |-> r.subscriptionId, mandateType |-> mandateType]
       IN /\ r.subscriptionId # SubId(1) => mandateType = Null
          /\ req' = [ route |-> "mandateModify", session |-> r.session, body |-> body,
                      result |-> result ]
          /\ Answer(mandateModify(subs, r.session, body, result))

VerifyPayment ==
  /\ now <= MaxNow
  /\ \E session \in Sessions, result \in GatewayResults :
       LET body == [txnid |-> t_A]
       IN /\ req' = [ route |-> "verifyPayment", session |-> session, body |-> body,
                      result |-> result ]
          /\ Answer(verifyPayment(subs, session, body, result))

CheckPayment ==
  /\ now <= MaxNow
  /\ \E session \in Sessions, result \in GatewayResults :
       LET body == [mihpayid |-> m_1]
       IN /\ req' = [ route |-> "checkPayment", session |-> session, body |-> body,
                      result |-> result ]
          /\ Answer(checkPayment(subs, session, body, result))

InitiateRefund ==
  /\ now <= MaxNow
  /\ \E session \in Sessions, result \in GatewayResults :
       LET body == [mihpayid |-> m_1]
       IN /\ req' = [ route |-> "initiateRefund", session |-> session, body |-> body,
                      result |-> result ]
          /\ Answer(initiateRefund(subs, session, body, result))

ListRefunds ==
  /\ now <= MaxNow
  /\ \E session \in Sessions, result \in GatewayResults :
       LET body == [mihpayids |-> <<m_1, <<"m","2">>>>]
       IN /\ req' = [ route |-> "listRefunds", session |-> session, body |-> body,
                      result |-> result ]
          /\ Answer(listRefunds(subs, session, body, result))

TransactionInfo ==
  /\ now <= MaxNow
  /\ \E session \in Sessions, result \in GatewayResults :
       LET body == [txnid |-> t_A]
       IN /\ req' = [ route |-> "transactionInfo", session |-> session, body |-> body,
                      result |-> result ]
          /\ Answer(transactionInfo(subs, session, body, result))

TransactionDetails ==
  /\ now <= MaxNow
  /\ \E session \in Sessions, result \in GatewayResults :
       LET body == [startDate |-> <<"d","1">>, endDate |-> <<"d","2">>]
       IN /\ req' = [ route |-> "transactionDetails", session |-> session, body |-> body,
                      result |-> result ]
          /\ Answer(transactionDetails(subs, session, body, result))

ValidateVpa ==
  /\ now <= MaxNow
  /\ \E session \in Sessions, result \in VpaResults :
       LET body == [vpa |-> <<"a","@","b">>]
       IN /\ req' = [ route |-> "validateVpa", session |-> session, body |-> body,
                      result |-> result ]
          /\ Answer(validateVpa(subs, session, body, result))

RefundStatus ==
  /\ now <= MaxNow
  /\ \E session \in Sessions, query \in RefundStatusQueries, result \in GatewayResults :
       /\ req' = [ route |-> "refundStatus", session |-> session, body |-> query,
                   result |-> result ]
       /\ Answer(refundStatus(subs, session, query, result))

CommandNext ==
  \/ CancelSubscription
  \/ PreDebitNotify
  \/ ChargeSubscription
  \/ UpdateSI
  \/ MandateStatus
  \/ MandateModify
  \/ VerifyPayment
  \/ CheckPayment
  \/ InitiateRefund
  \/ RefundStatus
  \/ ListRefunds
  \/ TransactionInfo
  \/ TransactionDetails
  \/ ValidateVpa

CommandSpec == Init /\ [][CommandNext]_vars

-----------------------------------------------------------------------------
(* The organization hook installed by init (hooks.ts), beside the requests    *)
(* that fill the store                                                        *)

isActive(sub) == sub.status = "active"

\* What a beforeDeleteOrganization hook configured before the plugin does
ExistingHooks == {"none", "passes", "throws"}

\* beforeDeletePayUOrg: one findOne by referenceId, then isActive of its answer
beforeDeletePayUOrg(rows, organizationId, subscription) ==
  LET found == <<Entry("findOne", "referenceId", RowIdOf(subscription), FALSE)>>
  IN IF subscription # Null /\ isActive(Val(subscription))
     THEN Outcome(rows, found, Response("BAD_REQUEST", "ORGANIZATION_ON_ACTIVE_SUBSCRIPTION"))
     ELSE Outcome(rows, found, Ok)

\* organizationHooks.beforeDeleteOrganization as init installs it: the hook
\* configured before, then beforeDeletePayUOrg
beforeDeleteOrganization(rows, organizationId, existingHook, subscription) ==
  LET ran == IF existingHook = "none" THEN <<>>
             ELSE <<Entry("callback", "existingHooks.beforeDeleteOrganization",
                          Some(organizationId), existingHook = "throws")>>
      own == beforeDeletePayUOrg(rows, organizationId, subscription)
  IN IF existingHook = "throws"
     THEN Outcome(rows, ran, Response("INTERNAL_SERVER_ERROR", "uncaught"))
     ELSE Outcome(rows, ran \o own.log, own.resp)

BeforeDeleteOrganization ==
  /\ now <= MaxNow + 1
  /\ options.organization # "disabled"
  /\ \E existingHook \in ExistingHooks :
       \E subscription \in Answers(subs, Matching(subs, o_1, AllStatuses)) :
         /\ req' = [route |-> "beforeDeleteOrganization", organization |-> o_1,
                    existingHook |-> existingHook]
         /\ Answer(beforeDeleteOrganization(subs, o_1, existingHook, subscription))

OrganizationNext ==
  \/ Webhook
  \/ PayAndSubscribe
  \/ BeforeDeleteOrganization

OrganizationSpec == Init /\ [][OrganizationNext]_vars

-----------------------------------------------------------------------------
(* The routes behind referenceMiddleware under every configuration of         *)
(* options.organization                                                       *)

AuthorizationOptionSets ==
  { [subscriptionEnabled |-> TRUE, organization |-> o] :
      o \in {"disabled", "enabled", "allows", "denies"} }

AuthorizationInit ==
  /\ subs = SeedRows
  /\ now = 1
  /\ options \in AuthorizationOptionSets
  /\ before = SeedRows
  /\ req = NoRequest
  /\ resp = Ok
  /\ log = <<>>
  /\ inflight = NoDeliveries

AuthorizationNext ==
  \/ CreateSubscription
  \/ PayAndSubscribe
  \/ UpdateSubscription
  \/ CancelSubscription
  \/ PauseSubscription
  \/ ResumeSubscription
  \/ ListSubscriptions

AuthorizationSpec == AuthorizationInit /\ [][AuthorizationNext]_vars

-----------------------------------------------------------------------------
(* Concurrent webhook deliveries: the route suspends at every await of the    *)
(* persistence collaborator, so the findOne and update calls of the handlers   *)
(* of several deliveries interleave.  Each call is one step.                   *)

\* Verified success / captured deliveries for the fixture row (found by txnid)
\* and for the second row (found by udf4)
SuccessDeliveries ==
  { Delivery(c, k, "gateway", NoFault).body :
      c \in {<<Some(s_success), Null>>, <<Some(s_captured), Null>>},
      k \in {PlainLookup, <<Some(t_X), Some(SubId(2))>>} }

\* The event the route hands to its handlers
EventOf(body) ==
  [ mihpayid |-> OrEmpty(body.mihpayid),
    status |-> OrEmpty(body.status),
    txnid |-> OrEmpty(body.txnid),
    udf |-> body.udf,
    notificationType |-> body.notificationType ]

\* findSubscription against the rows as they are when the call is answered
FoundIn(rows, body) == findSubscription(StartRun(rows, NoFault), EventOf(body)).found

\* The fields of adapter.update's `update` argument, taken from the row the
\* handler produces out of the row it read
Restrict(row, fields) == [f \in fields |-> row[f]]

At(d, pc, body, sub) ==
  inflight' = [inflight EXCEPT ![d] = [pc |-> pc, body |-> body, sub |-> sub]]

\* The route up to onPaymentSuccess's `await findSubscription(...)`
PaymentSuccessFind ==
  \E d \in DOMAIN inflight, body \in SuccessDeliveries :
    /\ inflight[d].pc = "start"
    /\ LET verified == verifyPayUHash(verifyParams(body), merchantSalt, Val(body.hash))
           handled == verified /\ options.subscriptionEnabled /\ EventOf(body).txnid # EmptyText
           sub == FoundIn(subs, body)
       IN /\ At(d, IF ~handled THEN "done"
                   ELSE IF sub = Null THEN "onSubscriptionActivated.find"
                   ELSE "onPaymentSuccess.update",
                Some(body), IF handled THEN sub ELSE Null)
          /\ log' = IF handled
                    THEN Append(log, Entry("findOne", "onPaymentSuccess", RowIdOf(sub), FALSE))
                    ELSE log
    /\ UNCHANGED <<subs, now, options, before, req, resp>>

\* onPaymentSuccess from the answer of findOne to the end: the update computed
\* from the row read, the plan lookup and the callback
PaymentSuccessUpdate ==
  \E d \in DOMAIN inflight :
    /\ inflight[d].pc = "onPaymentSuccess.update"
    /\ LET sub == Val(inflight[d].sub)
           run == onPaymentSuccess(options, StartRun(<<sub>>, NoFault),
                                   EventOf(Val(inflight[d].body)), now)
       IN /\ subs' = UpdateRow(subs, sub.id,
                       Restrict(run.subs[1], {"status", "payuMihpayid", "paidCount",
                                              "remainingCount", "updatedAt"}))
          /\ log' = Append(log, Entry("update", "onPaymentSuccess", Some(sub.id), FALSE))
    /\ At(d, "onSubscriptionActivated.find", inflight[d].body, Null)
    /\ now' = now + 1
    /\ UNCHANGED <<options, before, req, resp>>

\* onSubscriptionActivated up to its `await findSubscription(...)`
SubscriptionActivatedFind ==
  \E d \in DOMAIN inflight :
    /\ inflight[d].pc = "onSubscriptionActivated.find"
    /\ LET sub == FoundIn(subs, Val(inflight[d].body))
       IN /\ At(d, IF sub = Null THEN "done" ELSE "onSubscriptionActivated.update",
                inflight[d].body, sub)
          /\ log' = Append(log, Entry("findOne", "onSubscriptionActivated", RowIdOf(sub), FALSE))
    /\ UNCHANGED <<subs, now, options, before, req, resp>>

\* onSubscriptionActivated from the answer of findOne to the route's response
SubscriptionActivatedUpdate ==
  \E d \in DOMAIN inflight :
    /\ inflight[d].pc = "onSubscriptionActivated.update"
    /\ LET sub == Val(inflight[d].sub)
           run == onSubscriptionActivated(options, StartRun(<<sub>>, NoFault),
                                          EventOf(Val(inflight[d].body)), now)
       IN /\ subs' = UpdateRow(subs, sub.id,
                       Restrict(run.subs[1], {"status", "payuMihpayid", "currentStart",
                                              "updatedAt"}))
          /\ log' = Append(log, Entry("update", "onSubscriptionActivated", Some(sub.id), FALSE))
    /\ At(d, "done", inflight[d].body, Null)
    /\ now' = now + 1
    /\ UNCHANGED <<options, before, req, resp>>

ConcurrencyNext ==
  \/ PaymentSuccessFind
  \/ PaymentSuccessUpdate
  \/ SubscriptionActivatedFind
  \/ SubscriptionActivatedUpdate

ConcurrencySpec == Init /\ [][ConcurrencyNext]_vars

-----------------------------------------------------------------------------
(* The payment of a new subscription: the create routes hand out a txnid, and  *)
(* the gateway reports the payment made under it to the webhook                *)

\* The gateway's callback for the txnid of the last response; the payment form
\* the client was given carries no udf fields
PaymentCallback ==
  /\ now <= MaxNow + 1
  /\ resp.status = "OK"
  /\ resp.txnid # Null
  /\ \E c \in {<<Some(s_success), Null>>, <<Some(s_captured), Null>>, <<Some(s_failure), Null>>} :
       LET r == Delivery(c, <<resp.txnid, Null>>, "gateway", NoFault)
       IN /\ req' = [route |-> "webhook", body |-> r.body, signer |-> r.signer,
                     fault |-> r.fault]
          /\ Answer(webhook(options, subs, r.body, r.fault, now))

CorrelationNext ==
  \/ CreateSubscription
  \/ PayAndSubscribe
  \/ PaymentCallback

CorrelationSpec == AuthorizationInit /\ [][CorrelationNext]_vars

-----------------------------------------------------------------------------
(* The metadata slots on their own: one call of subscriptionUdf.set or        *)
(* customerUdf.set, followed by get, on caller metadata drawn at the start    *)

NoUdf == [i \in 1..10 |-> Null]

\* defu(object, defaults): a copy of defaults in which every property of object
\* that is neither null nor undefined is assigned
defu(object, defaults) ==
  [i \in 1..10 |-> IF object[i] # Null THEN object[i] ELSE defaults[i]]

\* subscriptionUdf.set(internalFields, userUdf)
subscriptionUdfSetOver(internalFields, userUdf) ==
  defu(subscriptionUdfSet(internalFields.userId, internalFields.subscriptionId,
                          internalFields.referenceId),
       IF userUdf = Null THEN NoUdf ELSE Val(userUdf))

\* subscriptionUdf.get(udf)
subscriptionUdfGet(udf) ==
  [userId |-> udf[2], subscriptionId |-> udf[4], referenceId |-> udf[5]]

c_user == <<"u","s","e","r">>
c_organization == <<"o","r","g","a","n","i","z","a","t","i","o","n">>

\* customerUdf.set(internalFields, userUdf): userId and organizationId are
\* undefined when internalFields does not have them
customerUdfSet(internalFields, userUdf) ==
  defu([i \in 1..10 |->
          CASE i = 1 -> Some(internalFields.customerType)
            [] i = 2 -> internalFields.userId
            [] i = 3 -> internalFields.organizationId
            [] OTHER -> Null],
       IF userUdf = Null THEN NoUdf ELSE Val(userUdf))

\* customerUdf.get(udf)
customerUdfGet(udf) ==
  [userId |-> udf[2], organizationId |-> udf[3], customerType |-> udf[1]]

\* The caller's metadata: none at all, or any of udf1..udf6 set
UserUdfs ==
  {Null} \cup
    { Some([i \in 1..10 |-> IF i \in filled THEN Some(<<"x">>) ELSE Null]) :
        filled \in SUBSET (1..MaxUserSlot) }

SubscriptionInternalUdfs ==
  { [userId |-> u_1, subscriptionId |-> SubId(1), referenceId |-> r] : r \in {u_1, o_1} }

CustomerInternalUdfs ==
  { [customerType |-> c_user, userId |-> Some(u_1), organizationId |-> Null],
    [customerType |-> c_organization, userId |-> Null, organizationId |-> Some(o_1)] }

MetadataInit ==
  /\ subs = SeedRows
  /\ now = 1
  /\ options \in OptionSets
  /\ before = SeedRows
  /\ req \in {[route |-> "udfInput", userUdf |-> u] : u \in UserUdfs}
  /\ resp = Ok
  /\ log = <<>>
  /\ inflight = NoDeliveries

SubscriptionUdfSet ==
  /\ req.route = "udfInput"
  /\ \E internalFields \in SubscriptionInternalUdfs :
       /\ req' = [ route |-> "subscriptionUdf.set", internalFields |-> internalFields,
                   userUdf |-> req.userUdf ]
       /\ resp' = The({ [udf |-> udf, got |-> subscriptionUdfGet(udf)] :
                        udf \in {subscriptionUdfSetOver(internalFields, req.userUdf)} })
  /\ UNCHANGED <<subs, now, options, before, log, inflight>>

CustomerUdfSet ==
  /\ req.route = "udfInput"
  /\ \E internalFields \in CustomerInternalUdfs :
       /\ req' = [ route |-> "customerUdf.set", internalFields |-> internalFields,
                   userUdf |-> req.userUdf ]
       /\ resp' = The({ [udf |-> udf, got |-> customerUdfGet(udf)] :
                        udf \in {customerUdfSet(internalFields, req.userUdf)} })
  /\ UNCHANGED <<subs, now, options, before, log, inflight>>

MetadataNext ==
  \/ SubscriptionUdfSet
  \/ CustomerUdfSet

MetadataSpec == MetadataInit /\ [][MetadataNext]_vars

-----------------------------------------------------------------------------
(* The hash engine on its own: one call of generatePayUHash or verifyPayUHash *)
(* on an input drawn at the start                                            *)

TextFields == <<"key", "txnid", "amount", "productinfo", "firstname", "email", "status">>

\* Every text field "a", the salt "a", every udf slot absent
BaseHashInput ==
  [ params |-> [ key |-> <<"a">>, txnid |-> <<"a">>, amount |-> <<"a">>,
                 productinfo |-> <<"a">>, firstname |-> <<"a">>, email |-> <<"a">>,
                 status |-> <<"a">>, udf |-> [i \in 1..10 |-> Null] ],
    salt |-> <<"a">> ]

\* Positions 1..7 are the text fields, 8 is the salt, 9..18 are udf1..udf10
HashPositions == 1..18

\* A text field or the salt is "a" or "b"; a udf slot is absent, "" or "b"
ValuesAt(pos) ==
  IF pos <= 8 THEN {<<"a">>, <<"b">>} ELSE {Null, Some(EmptyText), Some(<<"b">>)}

SetField(input, pos, v) ==
  IF pos = 8 THEN [input EXCEPT !.salt = v]
  ELSE IF pos > 8 THEN [input EXCEPT !.params.udf[pos - 8] = v]
  ELSE [input EXCEPT !.params[TextFields[pos]] = v]

\* The inputs that differ from `input` in exactly one field
Variants(input) ==
  UNION { {SetField(input, pos, v) : v \in ValuesAt(pos)} : pos \in HashPositions }
    \ {input}

RECURSIVE Within(_)
Within(k) ==
  IF k = 0 THEN {BaseHashInput}
  ELSE The({ near \cup UNION { {SetField(i, pos, v) : v \in ValuesAt(pos)} :
                                 i \in near, pos \in HashPositions } :
             near \in {Within(k - 1)} })

HashInputs == Within(MaxChanged)

\* The digest of the reverse message, as verifyPayUHash computes it
reverseHash(params, salt) == createHmac(EmptyText, reverseHashString(params, salt))

\* The reverse message of the README: five empty placeholders after the status
readmeReverseHashString(params, salt) ==
  join(<< salt, params.status,
          EmptyText, EmptyText, EmptyText, EmptyText, EmptyText,
          OrEmpty(params.udf[10]), OrEmpty(params.udf[9]), OrEmpty(params.udf[8]),
          OrEmpty(params.udf[7]), OrEmpty(params.udf[6]), OrEmpty(params.udf[5]),
          OrEmpty(params.udf[4]), OrEmpty(params.udf[3]), OrEmpty(params.udf[2]),
          OrEmpty(params.udf[1]),
          params.email, params.firstname, params.productinfo, params.amount,
          params.txnid, params.key >>, Pipe)

\* What a caller may present as the received hash: the outbound hash of the same
\* fields, the reverse hash as the code computes it, the reverse hash of the
\* README, and the code's reverse hash under another salt
ReceivedHashes(params, salt) ==
  { generatePayUHash(params, salt),
    reverseHash(params, salt),
    createHmac(EmptyText, readmeReverseHashString(params, salt)),
    reverseHash(params, otherSalt) }

HashInit ==
  /\ subs = SeedRows
  /\ now = 1
  /\ options \in OptionSets
  /\ before = SeedRows
  /\ req \in {[route |-> "hashInput", params |-> i.params, salt |-> i.salt] : i \in HashInputs}
  /\ resp = Ok
  /\ log = <<>>
  /\ inflight = NoDeliveries

GenerateHash ==
  /\ req.route = "hashInput"
  /\ req' = [route |-> "generatePayUHash", params |-> req.params, salt |-> req.salt]
  /\ resp' = [hash |-> generatePayUHash(req.params, req.salt)]
  /\ UNCHANGED <<subs, now, options, before, log, inflight>>

VerifyHash ==
  /\ req.route = "hashInput"
  /\ \E receivedHash \in ReceivedHashes(req.params, req.salt) :
       /\ req' = [ route |-> "verifyPayUHash", params |-> req.params, salt |-> req.salt,
                   receivedHash |-> receivedHash ]
       /\ resp' = [valid |-> verifyPayUHash(req.params, req.salt, receivedHash)]
  /\ UNCHANGED <<subs, now, options, before, log, inflight>>

HashNext ==
  \/ GenerateHash
  \/ VerifyHash

HashSpec == HashInit /\ [][HashNext]_vars

-----------------------------------------------------------------------------
(* Vocabulary of the properties *)

Terminal == {"cancelled", "completed", "expired"}

IsWebhook == req.route = "webhook"

\* The delivery carried the digest of its own fields under the merchant salt
Verified ==
  /\ IsWebhook
  /\ req.body.hash # Null
  /\ Val(req.body.hash) = Signature(req.body, merchantSalt)

ReqStatus == LowerOpt(req.body.status)

ReqNotifType == LowerOpt(req.body.notificationType)

RevokedNotice == ReqNotifType \in {Some(s_mandate_revoked), Some(s_si_cancelled)}

ModifiedNotice == ReqNotifType \in {Some(s_mandate_modified), Some(s_si_modified)}

SuccessEvent ==
  ~RevokedNotice /\ ~ModifiedNotice /\ ReqStatus \in {Some(s_success), Some(s_captured)}

CancelledEvent == ~RevokedNotice /\ ~ModifiedNotice /\ ReqStatus = Some(s_cancelled)

CompletedEvent == ~RevokedNotice /\ ~ModifiedNotice /\ ReqStatus = Some(s_completed)

FailureEvent ==
  ~RevokedNotice /\ ~ModifiedNotice /\ ReqStatus \in {Some(s_failure), Some(s_failed)}

\* The event reached a handler: a recognised notice or a recognised status
Classified == RevokedNotice \/ ModifiedNotice \/ ReqStatus \in StatusBranches

\* The declared lifecycle (the README's state diagram, with active -> expired):
\* created -> authenticated -> active -> {paused, pending, cancelled, completed,
\* expired}; paused <-> active; pending -> {active, halted}; halted -> active
LifecycleEdges ==
  { <<"created", "authenticated">>, <<"authenticated", "active">>,
    <<"active", "paused">>, <<"active", "pending">>, <<"active", "cancelled">>,
    <<"active", "completed">>, <<"active", "expired">>,
    <<"paused", "active">>, <<"pending", "active">>, <<"pending", "halted">>,
    <<"halted", "active">> }

LookedUp == \E k \in DOMAIN log : log[k].op = "findOne"

UpdateCalls == {k \in DOMAIN log : log[k].op = "update"}

NoThrow == \A k \in DOMAIN log : ~log[k].threw

\* The rows a lookup of this request returned
Found ==
  {i \in DOMAIN before :
     \E k \in DOMAIN log : log[k].op = "findOne" /\ log[k].b = Some(before[i].id)}

Invoked(h) == \E k \in DOMAIN log : log[k].op = "callback" /\ log[k].a = h

Updated(id) == \E k \in DOMAIN log : log[k].op = "update" /\ log[k].b = Some(id) /\ ~log[k].threw

-----------------------------------------------------------------------------
(* C1: a subscription that has reached cancelled, completed or expired keeps  *)
(* that status through every verified webhook delivery classified as success *)
(* / captured, failure / failed, pending, halted, paused, resumed / active   *)
(* or a mandate notice.                                                      *)
C1_TerminalNeverResurrected ==
  (Verified /\ ~CancelledEvent /\ ~CompletedEvent) =>
    \A i \in DOMAIN before :
      before[i].status \in Terminal => subs[i].status = before[i].status

(* C2: every row with a total count that is not in a terminal status has     *)
(* paidCount + remainingCount = totalCount.                                  *)
C2_CountersAddUp ==
  \A i \in DOMAIN subs :
    (subs[i].totalCount # Null /\ subs[i].status \notin Terminal) =>
      /\ subs[i].paidCount # Null
      /\ subs[i].remainingCount # Null
      /\ Val(subs[i].paidCount) + Val(subs[i].remainingCount) = Val(subs[i].totalCount)

(* C3: a webhook request whose hash is missing or is not the reverse hash of *)
(* its fields is answered BAD_REQUEST / UNAUTHORIZED, with no collaborator   *)
(* call (lookup, update, callback, log) and the rows untouched.              *)
C3_UnverifiedRejected ==
  (IsWebhook /\ ~Verified) =>
    /\ resp.status = IF req.body.hash = Null THEN "BAD_REQUEST" ELSE "UNAUTHORIZED"
    /\ log = <<>>
    /\ subs = before

C3_Witness ==
  /\ IsWebhook
  /\ req.signer = "replay"
  /\ options.subscriptionEnabled
  /\ req.body.status = Some(s_cancelled)
  /\ resp.status = "UNAUTHORIZED"

(* C4: every verified webhook event is acknowledged with success, and every  *)
(* exception thrown by a lookup, an update, the plan catalogue or a callback *)
(* is followed at once by the handler's logger.error.                        *)
C4_VerifiedAlwaysAcknowledged ==
  Verified =>
    /\ resp = Ok
    /\ \A k \in DOMAIN log :
         log[k].threw => (k < Len(log) /\ log[k + 1].op = "error")

C4_Witness ==
  /\ Verified
  /\ resp = Ok
  /\ \E k \in DOMAIN log : log[k].threw /\ log[k].op = "update"
  /\ subs = before

(* C5: with notificationType mandate_revoked or si_cancelled (any case) the  *)
(* event goes to onMandateRevoked whatever its status: no other handler's    *)
(* callback, warning or error appears, and the row found ends cancelled with *)
(* cancelledAt and endedAt set to the time of the request.                   *)
C5_NoticeBeatsStatus ==
  (Verified /\ RevokedNotice /\ options.subscriptionEnabled) =>
    /\ \A k \in DOMAIN log :
         log[k].op \in {"callback", "warn", "error"} => log[k].a = "onMandateRevoked"
    /\ NoThrow =>
         \A i \in Found :
           /\ subs[i].status = "cancelled"
           /\ subs[i].cancelledAt = Some(now - 1)
           /\ subs[i].endedAt = Some(now - 1)
           /\ Invoked("onMandateRevoked")

C5_Witness ==
  /\ Verified
  /\ RevokedNotice
  /\ ReqStatus = Some(s_active)
  /\ before[1].status = "active"
  /\ subs[1].status = "cancelled"
  /\ subs[1].endedAt = Some(now - 1)

(* C6: the lookup by id (udf4) is issued only right after a lookup by        *)
(* payuTransactionId that returned nothing; when the txnid is row A's and    *)
(* udf4 is row B's id, every update goes to A and B is left as it was.       *)
C6_TxnidLookupFirst ==
  Verified =>
    /\ \A k \in DOMAIN log :
         (log[k].op = "findOne" /\ log[k].a = "id") =>
           (k > 1 /\ log[k - 1] = Entry("findOne", "payuTransactionId", Null, FALSE))
    /\ \A a, b \in DOMAIN before :
         ( /\ a # b
           /\ req.body.txnid # Null
           /\ before[a].payuTransactionId = req.body.txnid
           /\ req.body.udf[4] = Some(before[b].id) ) =>
           /\ \A k \in DOMAIN log : log[k].op = "update" => log[k].b = Some(before[a].id)
           /\ subs[b] = before[b]

C6_Witness ==
  /\ Verified
  /\ req.body.txnid = Some(t_A)
  /\ req.body.udf[4] = Some(SubId(2))
  /\ Updated(SubId(1))
  /\ subs[1] # before[1]
  /\ subs[2] = before[2]

(* C7: one verified success / captured event on a found row with total t and *)
(* paid p leaves paidCount = p + 1 and remainingCount = max(t - (p + 1), 0), *)
(* after both the payment-success and the activation update.                 *)
C7_SuccessCountsOnce ==
  (Verified /\ SuccessEvent /\ options.subscriptionEnabled /\ NoThrow) =>
    \A i \in Found :
      before[i].totalCount # Null =>
        /\ subs[i].paidCount = Some(NumOrZero(before[i].paidCount) + 1)
        /\ subs[i].remainingCount =
             Some(Max(Val(before[i].totalCount) - (NumOrZero(before[i].paidCount) + 1), 0))

C7_Witness ==
  /\ Verified
  /\ SuccessEvent
  /\ Invoked("onPaymentSuccess")
  /\ Invoked("onSubscriptionActivated")
  /\ before[1].paidCount = Some(3)
  /\ before[1].totalCount = Some(12)
  /\ subs[1].paidCount = Some(4)
  /\ subs[1].remainingCount = Some(8)

(* C8: a success / captured event on a found row whose totalCount is null    *)
(* writes remainingCount = null and raises paidCount by one.                 *)
C8_NoTotalNoRemaining ==
  (Verified /\ SuccessEvent /\ options.subscriptionEnabled /\ NoThrow) =>
    \A i \in Found :
      before[i].totalCount = Null =>
        /\ subs[i].remainingCount = Null
        /\ subs[i].paidCount = Some(NumOrZero(before[i].paidCount) + 1)

C8_Witness ==
  /\ Verified
  /\ SuccessEvent
  /\ Updated(SubId(2))
  /\ before[2].totalCount = Null
  /\ subs[2].remainingCount = Null
  /\ subs[2].paidCount = Some(1)
  /\ subs[2].status = "active"

(* C9: a verified event with no recognised status and no recognised          *)
(* notification type makes no collaborator call, changes no row, and is      *)
(* acknowledged with success.                                                *)
C9_UnrecognisedIsNoOp ==
  (Verified /\ ~RevokedNotice /\ ~ModifiedNotice /\ ReqStatus \notin StatusBranches) =>
    /\ log = <<>>
    /\ subs = before
    /\ resp = Ok

C9_Witness ==
  /\ Verified
  /\ options.subscriptionEnabled
  /\ req.body.status = Some(<<"r","e","f","u","n","d","e","d">>)
  /\ req.body.notificationType = Some(<<"d","e","b","i","t">>)
  /\ req.body.txnid = Some(t_A)
  /\ resp = Ok
  /\ log = <<>>

(* C10: a cancelled event on a row that is already terminal does not invoke  *)
(* onSubscriptionCancelled again and leaves cancelledAt and endedAt as they  *)
(* were.                                                                     *)
C10_CancelledIsIdempotent ==
  (Verified /\ CancelledEvent) =>
    \A i \in Found :
      before[i].status \in Terminal =>
        /\ ~Invoked("onSubscriptionCancelled")
        /\ subs[i].cancelledAt = before[i].cancelledAt
        /\ subs[i].endedAt = before[i].endedAt

(* C11: deliveries are not deduplicated: a verified success event whose        *)
(* mihpayid is the one already recorded on the row it finds (the payment was  *)
(* delivered before) raises paidCount by one again, so the same event         *)
(* delivered twice leaves paidCount two higher.                               *)
C11_RepeatedSuccessCountsAgain ==
  (Verified /\ SuccessEvent /\ options.subscriptionEnabled /\ NoThrow) =>
    \A i \in Found :
      before[i].payuMihpayid = Some(OrEmpty(req.body.mihpayid)) =>
        subs[i].paidCount = Some(NumOrZero(before[i].paidCount) + 1)

C11_Witness ==
  /\ Verified
  /\ SuccessEvent
  /\ req.body.txnid = Some(t_A)
  /\ before[1].payuMihpayid = req.body.mihpayid
  /\ SeedRows[1].paidCount = Some(3)
  /\ before[1].paidCount = Some(4)
  /\ subs[1].paidCount = Some(5)

(* C12: the outbound hash of a parameter set, presented as the received hash  *)
(* of the same parameter set and salt, verifies.                              *)
C12_HashRoundTrip ==
  ( /\ req.route = "verifyPayUHash"
    /\ req.receivedHash = generatePayUHash(req.params, req.salt) ) => resp.valid

(* C13: changing any single field of the input (a udf slot from absent to the *)
(* empty string included) changes the digest of the outbound message, unless  *)
(* the field is the status, which that message does not carry, and changes    *)
(* the digest of the reverse message.                                         *)
C13_MessageInjective ==
  req.route \in {"generatePayUHash", "verifyPayUHash"} =>
    \A q \in Variants([params |-> req.params, salt |-> req.salt]) :
      /\ q.params.status = req.params.status =>
            generatePayUHash(q.params, q.salt) # generatePayUHash(req.params, req.salt)
      /\ reverseHash(q.params, q.salt) # reverseHash(req.params, req.salt)

(* C14: verifyPayUHash answers true exactly when the received hash is the     *)
(* digest of salt | status | five empty placeholders | udf10 .. udf1 | email  *)
(* | firstname | productinfo | amount | txnid | key.                          *)
C14_ReverseMessageFivePlaceholders ==
  req.route = "verifyPayUHash" =>
    ( resp.valid <=>
        req.receivedHash =
          createHmac(EmptyText,
            join(<< req.salt, req.params.status,
                    EmptyText, EmptyText, EmptyText, EmptyText, EmptyText,
                    OrEmpty(req.params.udf[10]), OrEmpty(req.params.udf[9]),
                    OrEmpty(req.params.udf[8]), OrEmpty(req.params.udf[7]),
                    OrEmpty(req.params.udf[6]), OrEmpty(req.params.udf[5]),
                    OrEmpty(req.params.udf[4]), OrEmpty(req.params.udf[3]),
                    OrEmpty(req.params.udf[2]), OrEmpty(req.params.udf[1]),
                    req.params.email, req.params.firstname, req.params.productinfo,
                    req.params.amount, req.params.txnid, req.params.key >>, <<"|">>)) )

C16_StatusChangesFollowLifecycle ==
  \A i \in DOMAIN before :
    subs[i].status # before[i].status =>
      <<before[i].status, subs[i].status>> \in LifecycleEdges

(* C17: no webhook delivery changes a subscription whose stored status is     *)
(* halted to active.                                                          *)
C17_HaltedNotReactivatedByWebhook ==
  IsWebhook =>
    \A i \in DOMAIN before :
      before[i].status = "halted" => subs[i].status # "active"

(* C18: a verified event issues at most two update calls when it is classified *)
(* success / captured and at most one otherwise, all on the one row its        *)
(* lookups returned; webhook dispatch creates no row.                          *)
C18_AtMostTwoUpdatesOneRow ==
  Verified =>
    /\ Cardinality(UpdateCalls) <= (IF SuccessEvent THEN 2 ELSE 1)
    /\ \A k \in UpdateCalls : \E i \in Found : log[k].b = Some(before[i].id)
    /\ \A k, l \in UpdateCalls : log[k].b = log[l].b
    /\ \A k \in DOMAIN log : log[k].op # "create"
    /\ Len(subs) = Len(before)

C18_Witness ==
  /\ Verified
  /\ SuccessEvent
  /\ NoThrow
  /\ Cardinality(UpdateCalls) = 2
  /\ \A k \in UpdateCalls : log[k].b = Some(SubId(1))
  /\ subs[1].paidCount = Some(4)

(* C19: when the lookups of a verified event return no row, no update is       *)
(* issued, no row changes and no callback is invoked, except onPaymentFailure  *)
(* for failure / failed, which is invoked whether or not a row was found.      *)
C19_NoMatchNoEffectButFailureCallback ==
  (Verified /\ options.subscriptionEnabled) =>
    /\ Found = {} =>
         /\ UpdateCalls = {}
         /\ subs = before
         /\ \A k \in DOMAIN log :
              log[k].op = "callback" => (FailureEvent /\ log[k].a = "onPaymentFailure")
    /\ (FailureEvent /\ NoThrow) => Invoked("onPaymentFailure")

C19_Witness ==
  /\ Verified
  /\ FailureEvent
  /\ req.body.txnid = Some(t_X)
  /\ LookedUp
  /\ Found = {}
  /\ Invoked("onPaymentFailure")
  /\ subs = before

(* C20: whatever the classification, a verified event whose lookups return no *)
(* row is recorded with a logger warning.                                     *)
C20_UnmatchedAlwaysWarned ==
  (Verified /\ options.subscriptionEnabled /\ Classified /\ LookedUp /\ NoThrow /\ Found = {}) =>
    \E k \in DOMAIN log : log[k].op = "warn"

CallbackCalls == {k \in DOMAIN log : log[k].op = "callback"}

(* C21: for a verified event whose subscription is found, one callback is     *)
(* invoked for each update applied (two for success / captured:                *)
(* onPaymentSuccess, then onSubscriptionActivated; one otherwise), and each    *)
(* callback comes right after that transition's update call and plan lookup    *)
(* and receives the subscription found.                                        *)
C21_OneCallbackPerTransitionAfterUpdate ==
  (Verified /\ options.subscriptionEnabled /\ Classified /\ NoThrow /\ Found # {}) =>
    /\ Cardinality(CallbackCalls) = (IF SuccessEvent THEN 2 ELSE 1)
    /\ Cardinality(UpdateCalls) = Cardinality(CallbackCalls)
    /\ SuccessEvent =>
         \E k, l \in CallbackCalls :
           k < l /\ log[k].a = "onPaymentSuccess" /\ log[l].a = "onSubscriptionActivated"
    /\ \A k \in CallbackCalls :
         /\ k > 2
         /\ log[k - 2].op = "update"
         /\ log[k - 1].op = "plans"
         /\ \E i \in Found : log[k].b = Some(before[i].id)
         /\ log[k - 2].b = log[k].b

\* The reference a subscription route acted for, and the rows stored under it
ReqReference == referenceMiddleware(options, req.session, req.body.referenceId)

RowsOfReference ==
  {i \in DOMAIN before : before[i].referenceId = ReqReference.referenceId}

FetchCalls == {k \in DOMAIN log : log[k].op = "fetch"}

(* C22: the direct cancel endpoint, called for a reference whose subscription *)
(* is already cancelled, completed or expired, answers with the error         *)
(* SUBSCRIPTION_ALREADY_CANCELLED or SUBSCRIPTION_IN_TERMINAL_STATE, makes no  *)
(* gateway call and writes nothing.                                            *)
C22_CancelOfTerminalIsConflict ==
  ( /\ req.route = "cancelSubscription"
    /\ ReqReference.error = Null
    /\ RowsOfReference # {}
    /\ \A i \in RowsOfReference : before[i].status \in Terminal ) =>
    /\ resp.status \in {"BAD_REQUEST", "CONFLICT"}
    /\ resp.code \in {"SUBSCRIPTION_ALREADY_CANCELLED", "SUBSCRIPTION_IN_TERMINAL_STATE"}
    /\ FetchCalls = {}
    /\ subs = before

(* C23: every command sent to the gateway whose answer has status 0 or an     *)
(* error field is surfaced to the caller as a structured error, never as a     *)
(* success response.                                                           *)
C23_FailedCommandIsAnError ==
  (FetchCalls # {} /\ (req.result.status = Some(0) \/ req.result.error # Null)) =>
    /\ resp.status # "OK"
    /\ resp.code # ""

(* C24: when subscriptions are not enabled in the options, a webhook delivery *)
(* reaches no collaborator: no findOne, no update, no logger call and no user  *)
(* callback, and no row changes, whatever the event.                           *)
C24_DisabledTouchesNothing ==
  (IsWebhook /\ ~options.subscriptionEnabled) =>
    /\ log = <<>>
    /\ subs = before

C24_Witness ==
  /\ Verified
  /\ ~options.subscriptionEnabled
  /\ CancelledEvent
  /\ req.body.txnid = Some(t_A)
  /\ before[1].status = "active"
  /\ log = <<>>
  /\ subs = before
  /\ resp = Ok

\* The action the README's table gives for each subscription route
AuthorizationActions ==
  [ createSubscription |-> "create-subscription",
    cancelSubscription |-> "cancel-subscription",
    pauseSubscription |-> "pause-subscription",
    resumeSubscription |-> "resume-subscription",
    updateSubscription |-> "update-subscription",
    listSubscriptions |-> "list-subscriptions" ]

(* C25: when organization.authorizeReference is configured and a request      *)
(* names a referenceId other than the session user's id, authorizeReference is *)
(* called with the action of the operation performed: create-subscription for  *)
(* create, cancel-subscription for cancel, pause-subscription for pause,       *)
(* resume-subscription for resume, update-subscription for update and          *)
(* list-subscriptions for list.                                                *)
C25_AuthorizeReferenceGetsTheAction ==
  ( /\ req.route \in DOMAIN AuthorizationActions
    /\ options.organization \in {"allows", "denies"}
    /\ req.session # Null
    /\ req.body.referenceId # Null
    /\ req.body.referenceId # req.session ) =>
    /\ \E k \in DOMAIN log : log[k].op = "authorizeReference"
    /\ \A k \in DOMAIN log :
         log[k].op = "authorizeReference" => log[k].a = AuthorizationActions[req.route]

(* C26: the list-subscriptions endpoint returns every stored subscription     *)
(* whose referenceId is the authorized reference: exactly those n records,     *)
(* n >= 0.                                                                     *)
C26_ListReturnsEveryRow ==
  (req.route = "listSubscriptions" /\ ReqReference.error = Null) =>
    /\ Len(resp.subscriptions) = Cardinality(RowsOfReference)
    /\ {resp.subscriptions[k] : k \in DOMAIN resp.subscriptions}
         = {before[i] : i \in RowsOfReference}

\* The caller's metadata of the request, slot by slot
ReqUserUdf == IF req.userUdf = Null THEN NoUdf ELSE Val(req.userUdf)

(* C27: subscriptionUdf.set(fields, userUdf) puts userId in udf2,             *)
(* subscriptionId in udf4 and referenceId in udf5 whatever userUdf holds in    *)
(* those slots, passes every other slot of userUdf through, and                *)
(* subscriptionUdf.get of the result returns fields; customerUdf.set likewise  *)
(* fills udf1..udf3 from the internal fields, whatever userUdf holds there,    *)
(* and passes the other slots through.                                         *)
C27_InternalSlotsWin ==
  /\ req.route = "subscriptionUdf.set" =>
       /\ resp.udf[2] = Some(req.internalFields.userId)
       /\ resp.udf[4] = Some(req.internalFields.subscriptionId)
       /\ resp.udf[5] = Some(req.internalFields.referenceId)
       /\ \A i \in (1..10) \ {2, 4, 5} : resp.udf[i] = ReqUserUdf[i]
       /\ resp.got = [ userId |-> Some(req.internalFields.userId),
                       subscriptionId |-> Some(req.internalFields.subscriptionId),
                       referenceId |-> Some(req.internalFields.referenceId) ]
  /\ req.route = "customerUdf.set" =>
       /\ resp.udf[1] = Some(req.internalFields.customerType)
       /\ resp.udf[2] = req.internalFields.userId
       /\ resp.udf[3] = req.internalFields.organizationId
       /\ \A i \in 4..10 : resp.udf[i] = ReqUserUdf[i]

\* The delivery of the request with status and notificationType in lower case,
\* signed by the gateway
LowerCaseTwin ==
  SignedBody([req.body EXCEPT !.hash = Null,
                              !.status = LowerOpt(@),
                              !.notificationType = LowerOpt(@)],
             "gateway")

(* C28: classification ignores letter case in status and notificationType: a  *)
(* verified event and the verified event that differs from it only in the     *)
(* letter case of those two fields reach the same handlers, apply the same     *)
(* updates and get the same answer.                                            *)
C28_ClassificationIgnoresCase ==
  Verified =>
    webhook(options, before, LowerCaseTwin, req.fault, now - 1) = Outcome(subs, log, resp)

C28_Witness ==
  /\ Verified
  /\ options.subscriptionEnabled
  /\ req.body.status # LowerOpt(req.body.status)
  /\ SuccessEvent
  /\ NoThrow
  /\ Invoked("onPaymentSuccess")
  /\ Updated(SubId(1))
  /\ subs # before

CounterFields == {"paidCount", "remainingCount", "totalCount"}

(* C29: only the success / captured and completed classifications change      *)
(* counters: any other verified event leaves paidCount, remainingCount and     *)
(* totalCount of every row as they were, and a mandate-modified / si-modified  *)
(* event changes no field but updatedAt.                                       *)
C29_CountersOnlyBySuccessAndCompleted ==
  Verified =>
    /\ ~(SuccessEvent \/ CompletedEvent) =>
         \A i \in DOMAIN before : \A f \in CounterFields : subs[i][f] = before[i][f]
    /\ ModifiedNotice =>
         \A i \in DOMAIN before :
           \A f \in DOMAIN before[i] \ {"updatedAt"} : subs[i][f] = before[i][f]

C29_Witness ==
  /\ Verified
  /\ ModifiedNotice
  /\ ReqStatus = Some(s_success)
  /\ Updated(SubId(1))
  /\ subs[1].updatedAt # before[1].updatedAt
  /\ subs[1].paidCount = before[1].paidCount
  /\ subs[1].status = before[1].status

\* The entries a handler leaves under its own name: callback, warning, error
EntriesOf(h) == {k \in DOMAIN log : log[k].a = h /\ log[k].op \in {"callback", "warn", "error"}}

PaymentStepFailed ==
  \E k \in DOMAIN log : log[k].op = "error" /\ log[k].a = "onPaymentSuccess"

(* C30: on a success / captured event the activation is a second, independent *)
(* step: onSubscriptionActivated starts after onPaymentSuccess has finished,   *)
(* and it still runs when the lookup, update, plan lookup or callback of       *)
(* onPaymentSuccess threw; the row then ends active with payuMihpayid and      *)
(* currentStart set, and with paidCount as it was when the lookup or the       *)
(* update threw.                                                               *)
C30_ActivationIsIndependent ==
  (Verified /\ options.subscriptionEnabled /\ SuccessEvent /\ Truthy(req.body.txnid)) =>
    /\ \A k \in EntriesOf("onPaymentSuccess"), l \in EntriesOf("onSubscriptionActivated") :
         k < l
    /\ req.fault \in FirstCallFaults =>
         /\ PaymentStepFailed
         /\ Invoked("onSubscriptionActivated")
         /\ Found # {}
         /\ \A i \in Found :
              /\ subs[i].status = "active"
              /\ subs[i].payuMihpayid = Some(OrEmpty(req.body.mihpayid))
              /\ subs[i].currentStart = Some(now - 1)
              /\ req.fault \in {<<"findOne", 1>>, <<"update", 1>>} =>
                   subs[i].paidCount = before[i].paidCount

C30_Witness ==
  /\ Verified
  /\ SuccessEvent
  /\ req.fault = <<"update", 1>>
  /\ PaymentStepFailed
  /\ Invoked("onSubscriptionActivated")
  /\ before[1].status = "paused"
  /\ subs[1].status = "active"
  /\ subs[1].payuMihpayid = Some(m_1)
  /\ subs[1].currentStart = Some(now - 1)
  /\ subs[1].paidCount = before[1].paidCount

CancelNow == req.route = "cancelSubscription" /\ ~req.body.cancelAtCycleEnd

(* C31: direct cancel without cancelAtCycleEnd writes status cancelled, with  *)
(* cancelledAt and endedAt, only after the gateway answered the revoke call    *)
(* with success: when the answer has status 0 or an error field, or the        *)
(* transport throws, the request fails and every row is left as it was.        *)
C31_CancelWritesOnlyAfterRevoke ==
  CancelNow =>
    /\ (FetchCalls # {} /\ (fetchThrew(req.result) \/ commandFailed(req.result))) =>
         /\ resp.status # "OK"
         /\ subs = before
    /\ subs # before =>
         /\ resp = Ok
         /\ \E k \in FetchCalls, l \in UpdateCalls : k < l /\ ~log[k].threw
         /\ \A i \in DOMAIN before :
              subs[i] # before[i] =>
                /\ before[i].status \in {"active", "authenticated"}
                /\ subs[i] = [before[i] EXCEPT !.status = "cancelled",
                                               !.cancelledAt = Some(now - 1),
                                               !.endedAt = Some(now - 1),
                                               !.updatedAt = Some(now - 1)]

C31_Witness ==
  /\ CancelNow
  /\ req.result.status = Some(0)
  /\ FetchCalls # {}
  /\ resp.code = "MANDATE_REVOKE_FAILED"
  /\ before[1].status = "active"
  /\ subs = before

\* The rows of the request's reference that had this status
RowsOfReferenceIn(status) == {i \in RowsOfReference : before[i].status = status}

(* C32: the direct pause endpoint changes a row only from active to paused,   *)
(* setting pausedAt, and the direct resume endpoint only from paused to        *)
(* active, clearing pausedAt; when the reference has no row in the required    *)
(* status the request fails with SUBSCRIPTION_NOT_FOUND and nothing is         *)
(* written.                                                                    *)
C32_PauseAndResumeOnlyFromTheirStatus ==
  /\ req.route = "pauseSubscription" =>
       /\ \A i \in DOMAIN before :
            subs[i] # before[i] =>
              /\ before[i].status = "active"
              /\ subs[i] = [before[i] EXCEPT !.status = "paused",
                                             !.pausedAt = Some(now - 1),
                                             !.updatedAt = Some(now - 1)]
       /\ (ReqReference.error = Null /\ RowsOfReferenceIn("active") = {}) =>
            /\ resp = Response("NOT_FOUND", "SUBSCRIPTION_NOT_FOUND")
            /\ UpdateCalls = {}
            /\ subs = before
  /\ req.route = "resumeSubscription" =>
       /\ \A i \in DOMAIN before :
            subs[i] # before[i] =>
              /\ before[i].status = "paused"
              /\ subs[i] = [before[i] EXCEPT !.status = "active",
                                             !.pausedAt = Null,
                                             !.updatedAt = Some(now - 1)]
       /\ (ReqReference.error = Null /\ RowsOfReferenceIn("paused") = {}) =>
            /\ resp = Response("NOT_FOUND", "SUBSCRIPTION_NOT_FOUND")
            /\ UpdateCalls = {}
            /\ subs = before

C32_Witness ==
  /\ req.route = "resumeSubscription"
  /\ before[1].status = "paused"
  /\ before[1].pausedAt # Null
  /\ subs[1].status = "active"
  /\ subs[1].pausedAt = Null
  /\ resp = Ok

(* C33: direct cancel with cancelAtCycleEnd = true only sets the              *)
(* cancelAtCycleEnd flag and updatedAt of the subscription found: status,      *)
(* cancelledAt, endedAt and every other field stay as they were, and no        *)
(* gateway revoke call is made.                                                *)
C33_CancelAtCycleEndOnlyFlags ==
  (req.route = "cancelSubscription" /\ req.body.cancelAtCycleEnd) =>
    /\ FetchCalls = {}
    /\ \A i \in DOMAIN before :
         subs[i] # before[i] =>
           subs[i] = [before[i] EXCEPT !.cancelAtCycleEnd = TRUE,
                                       !.updatedAt = Some(now - 1)]
    /\ (ReqReference.error = Null /\ resp = Ok) =>
         \E i \in RowsOfReference : subs[i].cancelAtCycleEnd /\ Updated(subs[i].id)

C33_Witness ==
  /\ req.route = "cancelSubscription"
  /\ req.body.cancelAtCycleEnd
  /\ resp = Ok
  /\ FetchCalls = {}
  /\ ~before[1].cancelAtCycleEnd
  /\ subs[1].cancelAtCycleEnd
  /\ subs[1].status = "active"
  /\ subs[1].cancelledAt = Null
  /\ subs[1].endedAt = Null

\* The plan the request's name resolves to
ReqPlan == getPlanByName(req.body.plan)

\* The reference's rows that hold a live subscription to the requested plan
SubscribedToReqPlan ==
  {i \in RowsOfReferenceIn("active") \cup RowsOfReferenceIn("authenticated") :
     ReqPlan # Null /\ before[i].plan = Val(ReqPlan).name}

(* C34: createSubscription never creates a second record for a plan the        *)
(* reference is already subscribed to: whenever the reference has an active    *)
(* or authenticated subscription for the requested plan (the plan the name     *)
(* resolves to, case-insensitively), the request fails with                    *)
(* ALREADY_SUBSCRIBED_PLAN and no record is created.                           *)
C34_NoSecondRecordForAPlan ==
  ( /\ req.route = "createSubscription"
    /\ ReqReference.error = Null
    /\ SubscribedToReqPlan # {} ) =>
    /\ resp = Response("CONFLICT", "ALREADY_SUBSCRIBED_PLAN")
    /\ subs = before

\* The organization's rows holding an active subscription when the hook ran
ActiveRowsOfOrganization ==
  {i \in DOMAIN before : before[i].referenceId = req.organization /\ before[i].status = "active"}

(* C35: with organization support enabled, deleting an organization is        *)
(* blocked whenever any stored subscription whose referenceId is the           *)
(* organization's id has status active: the beforeDeleteOrganization hook      *)
(* throws ORGANIZATION_ON_ACTIVE_SUBSCRIPTION, after first running any         *)
(* previously configured beforeDeleteOrganization hook (whose own exception    *)
(* blocks the deletion as well).                                               *)
C35_ActiveOrganizationIsNotDeleted ==
  ( /\ req.route = "beforeDeleteOrganization"
    /\ ActiveRowsOfOrganization # {} ) =>
    /\ req.existingHook # "none" =>
         (log # <<>> /\ log[1].a = "existingHooks.beforeDeleteOrganization")
    /\ req.existingHook # "throws" =>
         resp = Response("BAD_REQUEST", "ORGANIZATION_ON_ACTIVE_SUBSCRIPTION")
    /\ resp # Ok

\* The routes that run referenceMiddleware
ReferenceRoutes ==
  { "createSubscription", "payAndSubscribe", "updateSubscription", "cancelSubscription",
    "pauseSubscription", "resumeSubscription", "listSubscriptions" }

Forbidden == Response("FORBIDDEN", "REFERENCE_ID_NOT_ALLOWED")

\* Lookups, gateway calls and writes of the request
StoreOrGatewayCalls ==
  {k \in DOMAIN log : log[k].op \in {"findOne", "fetch", "update", "create"}}

\* The request names a reference other than its session user
NamesAnotherReference ==
  /\ req.session # Null
  /\ req.body.referenceId # Null
  /\ req.body.referenceId # req.session

(* C36: a subscription request without a session user fails with             *)
(* UNAUTHORIZED; a request naming a referenceId different from the session     *)
(* user's id proceeds only if organization support is enabled and, when        *)
(* authorizeReference is configured, it returned true; otherwise it fails      *)
(* with FORBIDDEN (REFERENCE_ID_NOT_ALLOWED) before any lookup, gateway call   *)
(* or write.                                                                   *)
C36_ReferenceAuthorization ==
  req.route \in ReferenceRoutes =>
    /\ req.session = Null =>
         /\ resp = Response("UNAUTHORIZED", "UNAUTHORIZED")
         /\ log = <<>>
         /\ subs = before
    /\ NamesAnotherReference =>
         IF options.organization \in {"enabled", "allows"}
         THEN resp # Forbidden
         ELSE /\ resp = Forbidden
              /\ StoreOrGatewayCalls = {}
              /\ subs = before
    /\ (req.session # Null /\ ~NamesAnotherReference) => resp # Forbidden

C36_Witness ==
  /\ req.route = "cancelSubscription"
  /\ NamesAnotherReference
  /\ options.organization = "denies"
  /\ \E i \in DOMAIN before :
       before[i].referenceId = Val(req.body.referenceId) /\ before[i].status = "created"
  /\ resp = Forbidden
  /\ log = <<Entry("authorizeReference", "list-subscriptions", req.body.referenceId, FALSE)>>

\* Every delivery has been answered
AllProcessed == \A d \in DOMAIN inflight : inflight[d].pc = "done"

\* The deliveries whose event names the row `id`
SuccessesFor(id) ==
  {d \in DOMAIN inflight :
     inflight[d].body # Null /\ RowIdOf(FoundIn(SeedRows, Val(inflight[d].body))) = Some(id)}

(* C37: no success event is lost: once n verified success / captured events   *)
(* for the same subscription have all been processed, its paidCount has grown  *)
(* by exactly n, for every interleaving of the handlers' find and update       *)
(* steps.                                                                      *)
C37_NoSuccessEventIsLost ==
  (options.subscriptionEnabled /\ AllProcessed) =>
    \A i \in DOMAIN subs :
      NumOrZero(subs[i].paidCount)
        = NumOrZero(before[i].paidCount) + Cardinality(SuccessesFor(subs[i].id))

\* The rows a create route added and handed the delivery's txnid out for
CreatedUnderTxnid ==
  {i \in DOMAIN before :
     /\ i > Len(SeedRows)
     /\ \E t \in 1..MaxNow : Some(NewTxnid(t, before[i].id)) = req.body.txnid}

(* C38: the transaction id handed out for a new subscription correlates       *)
(* callbacks back to it: a verified webhook event carrying the txnid that      *)
(* createSubscription or payAndSubscribe returned (and no udf4) is matched to  *)
(* the created subscription, so a success event moves it from created to       *)
(* active.                                                                     *)
C38_TxnidCorrelatesTheCallback ==
  ( /\ IsWebhook
    /\ Verified
    /\ options.subscriptionEnabled
    /\ req.fault = NoFault
    /\ req.body.udf[4] = Null
    /\ LowerOpt(req.body.status) \in {Some(s_success), Some(s_captured)} ) =>
    \A i \in CreatedUnderTxnid :
      before[i].status = "created" => subs[i].status = "active"

(* C39: in every reachable state a subscription whose status is active has    *)
(* pausedAt = null: every transition that leaves a paused subscription active  *)
(* (direct resume, resumed / active webhook, success / captured webhook)       *)
(* clears pausedAt.                                                            *)
C39_ActiveIsNotPaused ==
  \A i \in DOMAIN subs : subs[i].status = "active" => subs[i].pausedAt = Null

(* C40: in every state reachable from subscriptions created by the plugin, a  *)
(* subscription whose status is cancelled or completed has endedAt set, and    *)
(* one whose status is cancelled also has cancelledAt set.                     *)
C40_EndedRowsCarryTheirDates ==
  \A i \in DOMAIN subs :
    /\ subs[i].status \in {"cancelled", "completed"} => subs[i].endedAt # Null
    /\ subs[i].status = "cancelled" => subs[i].cancelledAt # Null

C40_Witness ==
  /\ IsWebhook
  /\ Verified
  /\ LowerOpt(req.body.notificationType) \in {Some(s_mandate_revoked), Some(s_si_cancelled)}
  /\ before[1].status = "active"
  /\ before[1].endedAt = Null
  /\ subs[1].status = "cancelled"
  /\ subs[1].endedAt = Some(now - 1)
  /\ subs[1].cancelledAt = Some(now - 1)

====
